---- MODULE Spec2Model ----
(***************************************************************************)
(* RFP-Assistant: document ingestion, anonymization and vector indexing.   *)
(*                                                                         *)
(* Texts are sequences of atoms.  An atom is a string standing for a run   *)
(* of characters that no entity span ever cuts ("Jean", " ", "@", "[").    *)
(* Offsets are 0-based atom offsets, used exactly as the code uses its     *)
(* 0-based character offsets; Len(atom) is the atom's character count.     *)
(***************************************************************************)
EXTENDS Integers, Sequences, FiniteSets, TLC

VARIABLES
    mappings,      \* committed anonymization_mappings rows, in commit order
    chunks,        \* committed document_chunks rows
    documents,     \* committed documents rows: document id -> row, or NoRow
    collection,    \* the vector store: project id -> sequence of vectors
    progress,      \* ProgressTracker._progress: document id -> entry, or NoRow
    progress_log,  \* every step written to the progress channel, per document
    session,       \* per process: the rows its open database session holds
    pc,            \* per process: the statement it is about to execute
    local,         \* per process: the local variables of its coroutine
    issued,        \* history: every (project, original value, placeholder) substituted
    faults,        \* failures the collaborators may still have
    _model,        \* AnonymizationService._model, the lazily loaded GLiNER singleton
    inp,           \* arguments of the service calls applied on their own
    out,           \* what those calls returned and left
    _client,       \* VectorService._client is set
    _embedding_fn, \* VectorService._embedding_fn is set
    loop,          \* the coroutine the event loop is running, or "free"
    inference      \* per model: the coroutines with a call into it in progress

vars == <<mappings, chunks, documents, collection, progress, progress_log,
          session, pc, local, issued, faults, _model, inp, out,
          _client, _embedding_fn, loop, inference>>

-----------------------------------------------------------------------------
(* Python built-ins, on sequences of atoms *)

Min(a, b) == IF a < b THEN a ELSE b
Max(a, b) == IF a > b THEN a ELSE b

\* s[a:b] with 0 <= a, 0 <= b: Python clamps both ends to len(s)
PySlice(s, a, b) ==
    LET lo == Min(a, Len(s))
        hi == Min(b, Len(s))
    IN  IF lo >= hi THEN <<>> ELSE SubSeq(s, lo + 1, hi)

\* s[a:]
PyFrom(s, a) == PySlice(s, a, Len(s))

IsSpace(c) == c \in {" ", "\n", "\f"}

RECURSIVE LStrip(_)
LStrip(s) == IF s # <<>> /\ IsSpace(Head(s)) THEN LStrip(Tail(s)) ELSE s

RECURSIVE RStrip(_)
RStrip(s) ==
    IF s # <<>> /\ IsSpace(s[Len(s)]) THEN RStrip(SubSeq(s, 1, Len(s) - 1)) ELSE s

\* str.strip()
\* a variant that trims nothing, as "if not text" would test the text
StripNothing(s) == s

Strip(s) == RStrip(LStrip(s))

\* len(s) in characters
RECURSIVE CharLen(_)
CharLen(s) == IF s = <<>> THEN 0 ELSE Len(Head(s)) + CharLen(Tail(s))

\* s.startswith(p, i) for a 0-based offset i
StartsAt(s, p, i) == i + Len(p) <= Len(s) /\ SubSeq(s, i + 1, i + Len(p)) = p

\* str.replace(old, new): leftmost, non-overlapping, old non-empty
RECURSIVE ReplaceFrom(_, _, _, _)
ReplaceFrom(s, old, new, i) ==
    IF i >= Len(s) THEN <<>>
    ELSE IF StartsAt(s, old, i) THEN new \o ReplaceFrom(s, old, new, i + Len(old))
    ELSE <<s[i + 1]>> \o ReplaceFrom(s, old, new, i + 1)

Replace(s, old, new) == IF old = <<>> THEN s ELSE ReplaceFrom(s, old, new, 0)

\* sep.join(parts), computed by halves
RECURSIVE Join(_, _)
Join(sep, parts) ==
    IF parts = <<>> THEN <<>>
    ELSE IF Len(parts) = 1 THEN parts[1]
    ELSE LET m == Len(parts) \div 2
         IN  Join(sep, SubSeq(parts, 1, m)) \o sep \o Join(sep, SubSeq(parts, m + 1, Len(parts)))

\* the least element of a non-empty set of numbers
SetMin(S) == CHOOSE x \in S : \A y \in S : x <= y

\* the matches of r'\S+' that start at an offset in a..b-1, computed by halves: a
\* match starts where a non-space follows the start of the text or a space, and runs
\* to the next space
RECURSIVE WordSpansIn(_, _, _)
WordSpansIn(text, a, b) ==
    IF b <= a THEN <<>>
    ELSE IF b = a + 1
    THEN IF ~IsSpace(text[a + 1]) /\ (a = 0 \/ IsSpace(text[a]))
         THEN LET RECURSIVE WordEnd(_)
                  WordEnd(j) ==
                      IF j < Len(text) /\ ~IsSpace(text[j + 1]) THEN WordEnd(j + 1) ELSE j
              IN  <<<<a, WordEnd(a)>>>>
         ELSE <<>>
    ELSE LET m == (a + b) \div 2
         IN  WordSpansIn(text, a, m) \o WordSpansIn(text, m, b)

\* [(m.start(), m.end()) for m in re.finditer(r'\S+', text)]
WordSpans(text) == WordSpansIn(text, 0, Len(text))

\* text.split(): the whitespace-separated words, each a sequence of atoms
Split(text) ==
    LET ws == WordSpans(text)
    IN  [k \in 1..Len(ws) |-> PySlice(text, ws[k][1], ws[k][2])]

\* str(n) for n >= 0
Digit == <<"0", "1", "2", "3", "4", "5", "6", "7", "8", "9">>
RECURSIVE ToStr(_)
ToStr(n) == IF n < 10 THEN Digit[n + 1] ELSE ToStr(n \div 10) \o Digit[(n % 10) + 1]

\* list.sort(key=lambda x: x[2]): stable, ascending by start
RECURSIVE SortByStart(_)
SortByStart(es) ==
    IF es = <<>> THEN <<>>
    ELSE LET rest == SortByStart(SubSeq(es, 1, Len(es) - 1))
             e == es[Len(es)]
             RECURSIVE Ins(_)
             Ins(k) == IF k > Len(rest) \/ rest[k].start > e.start
                       THEN SubSeq(rest, 1, k - 1) \o <<e>> \o SubSeq(rest, k, Len(rest))
                       ELSE Ins(k + 1)
         IN  Ins(1)

RECURSIVE Reverse(_)
Reverse(s) == IF s = <<>> THEN <<>> ELSE Reverse(Tail(s)) \o <<Head(s)>>

Range(s) == {s[k] : k \in 1..Len(s)}

-----------------------------------------------------------------------------
(* anonymization_service.py: tables *)

EntityType == {"company", "person", "email", "phone", "address", "project_code",
               "rfp_code", "solution_name", "date", "amount", "other"}

GLINER_LABELS == {"person", "organization", "company", "email address", "phone number",
                  "address", "project code", "solution name", "monetary amount"}

\* LABEL_TO_ENTITY_TYPE.get(label, EntityType.OTHER)
LABEL_TO_ENTITY_TYPE(label) ==
    CASE label = "person" -> "person"
      [] label = "organization" -> "company"
      [] label = "company" -> "company"
      [] label = "email address" -> "email"
      [] label = "phone number" -> "phone"
      [] label = "address" -> "address"
      [] label = "project code" -> "project_code"
      [] label = "solution name" -> "solution_name"
      [] label = "monetary amount" -> "amount"
      [] OTHER -> "other"

\* ENTITY_PREFIXES.get(entity_type, "ENTITE")
ENTITY_PREFIXES(entity_type) ==
    CASE entity_type = "company" -> "ENTREPRISE"
      [] entity_type = "person" -> "PERSONNE"
      [] entity_type = "email" -> "EMAIL"
      [] entity_type = "phone" -> "TELEPHONE"
      [] entity_type = "address" -> "ADRESSE"
      [] entity_type = "project_code" -> "CODE_PROJET"
      [] entity_type = "rfp_code" -> "CODE_AO"
      [] entity_type = "solution_name" -> "SOLUTION"
      [] entity_type = "date" -> "DATE"
      [] entity_type = "amount" -> "MONTANT"
      [] entity_type = "other" -> "ENTITE"
      [] OTHER -> "ENTITE"

\* f"[{prefix}_{n}]"
Placeholder(prefix, n) == <<"[", prefix, "_", ToStr(n), "]">>

-----------------------------------------------------------------------------
(* anonymization_service.py: entity detection *)

GLINER_SEGMENT_WORDS == 150
GLINER_OVERLAP_WORDS == 20

\* atoms made of characters of [A-Za-z0-9]
AlnumAtoms == {"Jean", "Marie", "Dupont", "jean", "dupont", "acme", "mot", "x",
               "Contactez", "ou", "au", "0", "6", "12", "23", "45", "67", "89",
               "PERSONNE", "ENTITE", "1", "2"}
\* the punctuation of [A-Za-z0-9._%+-] the texts use
LocalPartAtoms == {"."}
\* a dot and a top-level domain of two letters or more
TldAtoms == {".fr"}
\* (?:\+33|0)
PhoneLeadAtoms == {"+33", "0"}
\* [1-9]
PhoneFirstAtoms == {"6", "1", "2"}
\* \d{2}
TwoDigitAtoms == {"12", "23", "45", "67", "89"}
\* [\s.-]
PhoneSepAtoms == {" ", "\n", ".", "-"}

\* the offset after the longest run of atoms of class C that starts at offset i
RECURSIVE RunEnd(_, _, _)
RunEnd(text, i, C) == IF i < Len(text) /\ text[i + 1] \in C THEN RunEnd(text, i + 1, C) ELSE i

\* REGEX_PATTERNS[EntityType.EMAIL] matched at offset i: the end offset, or -1.
\* [A-Za-z0-9._%+-]+ @ [A-Za-z0-9.-]+ \.[A-Z|a-z]{2,}
EmailMatchEnd(text, i) ==
    LET l == IF i < Len(text) /\ text[i + 1] \in AlnumAtoms
             THEN RunEnd(text, i, AlnumAtoms \cup LocalPartAtoms) ELSE i
        d == IF l < Len(text) /\ text[l + 1] = "@"
             THEN RunEnd(text, l + 1, AlnumAtoms \cup TldAtoms) ELSE l
        tlds == {t \in (l + 3)..d : text[t] \in TldAtoms}
    IN  IF l > i /\ (i = 0 \/ text[i] \notin AlnumAtoms) /\ tlds # {}
        THEN CHOOSE t \in tlds : \A u \in tlds : u <= t
        ELSE -1

\* (?:[\s.-]*\d{2}){n} matched at offset i: the end offset, or -1
RECURSIVE PhoneGroups(_, _, _)
PhoneGroups(text, i, n) ==
    IF n = 0 THEN i
    ELSE LET s == RunEnd(text, i, PhoneSepAtoms)
         IN  IF s < Len(text) /\ text[s + 1] \in TwoDigitAtoms
             THEN PhoneGroups(text, s + 1, n - 1) ELSE -1

\* REGEX_PATTERNS[EntityType.PHONE] matched at offset i: the end offset, or -1.
\* (?:\+33|0)\s*[1-9](?:[\s.-]*\d{2}){4}
PhoneMatchEnd(text, i) ==
    IF i < Len(text) /\ text[i + 1] \in PhoneLeadAtoms
    THEN LET s == RunEnd(text, i + 1, {" ", "\n"})
         IN  IF s < Len(text) /\ text[s + 1] \in PhoneFirstAtoms
             THEN PhoneGroups(text, s + 1, 4) ELSE -1
    ELSE -1

RegexMatchEnd(entity_type, text, i) ==
    IF entity_type = "email" THEN EmailMatchEnd(text, i) ELSE PhoneMatchEnd(text, i)

\* re.finditer(pattern, text): leftmost, non-overlapping matches as <<start, end>>
RECURSIVE FindIter(_, _, _)
FindIter(entity_type, text, i) ==
    LET at == {j \in i..(Len(text) - 1) : RegexMatchEnd(entity_type, text, j) > j}
    IN  IF at = {} THEN <<>>
        ELSE LET j == SetMin(at)
                 e == RegexMatchEnd(entity_type, text, j)
             IN  <<<<j, e>>>> \o FindIter(entity_type, text, e)

\* REGEX_PATTERNS.items(), in the order of the dict literal
REGEX_PATTERNS == <<"email", "phone">>

Entity(text, label, start, end) == [text |-> text, label |-> label, start |-> start, end |-> end]

\* the regex loop of detect_entities / _batch_detect_entities for one pattern:
\* a match is appended unless an entity collected so far has the same text
RECURSIVE AddRegexMatches(_, _, _, _)
AddRegexMatches(entities, entity_type, text, ms) ==
    IF ms = <<>> THEN entities
    ELSE LET matched_text == PySlice(text, Head(ms)[1], Head(ms)[2])
             next == IF \E k \in 1..Len(entities) : entities[k].text = matched_text
                     THEN entities
                     ELSE Append(entities,
                                 Entity(matched_text, entity_type, Head(ms)[1], Head(ms)[2]))
         IN  AddRegexMatches(next, entity_type, text, Tail(ms))

RECURSIVE ApplyRegex(_, _, _)
ApplyRegex(entities, text, patterns) ==
    IF patterns = <<>> THEN entities
    ELSE ApplyRegex(AddRegexMatches(entities, Head(patterns), text,
                                    FindIter(Head(patterns), text, 0)),
                    text, Tail(patterns))

(* The GLiNER model is outside the repository.  A model is a record: tags   *)
(* is the set of [text, label] pairs it tags above the threshold, and      *)
(* predict_entities tags every occurrence, leftmost and longest first, so  *)
(* its spans never overlap.  loaded = FALSE is _get_model() returning None *)
(* (load failure).                                                         *)
NoModel == [loaded |-> FALSE, tags |-> {}]

GLiNER(tags) == [loaded |-> TRUE, tags |-> tags]

RECURSIVE Predict(_, _, _)
Predict(model, text, i) ==
    LET at == {j \in i..(Len(text) - 1) : \E m \in model.tags : StartsAt(text, m.text, j)}
    IN  IF at = {} THEN <<>>
        ELSE LET j == SetMin(at)
                 hits == {m \in model.tags : StartsAt(text, m.text, j)}
                 m == CHOOSE h \in hits : \A g \in hits : Len(g.text) <= Len(h.text)
             IN  <<Entity(m.text, m.label, j, j + Len(m.text))>>
                     \o Predict(model, text, j + Len(m.text))

\* model.predict_entities(text, GLINER_LABELS, threshold=0.4)
predict_entities(model, text) == Predict(model, text, 0)

\* a variant that appends every prediction, seen or not
RECURSIVE AddPredictionsUnseen(_, _, _)
AddPredictionsUnseen(acc, preds, seg_start) ==
    IF preds = <<>> THEN acc
    ELSE LET p == Head(preds)
             next == [seen |-> acc.seen,
                      entities |-> Append(acc.entities,
                          Entity(p.text, p.label, seg_start + p.start, seg_start + p.end))]
         IN  AddPredictionsUnseen(next, Tail(preds), seg_start)

\* the loop over one segment's predictions: absolute offsets, dedup on (text, abs_start)
RECURSIVE AddPredictions(_, _, _)
AddPredictions(acc, preds, seg_start) ==
    IF preds = <<>> THEN acc
    ELSE LET p == Head(preds)
             key == <<p.text, seg_start + p.start>>
             next == IF key \in acc.seen THEN acc
                     ELSE [seen |-> acc.seen \cup {key},
                           entities |-> Append(acc.entities,
                               Entity(p.text, p.label, seg_start + p.start, seg_start + p.end))]
         IN  AddPredictions(next, Tail(preds), seg_start)

\* for i in range(0, len(word_spans), step): the segments as <<seg_start, seg_end>>
RECURSIVE Segments(_, _)
Segments(word_spans, i) ==
    IF i >= Len(word_spans) THEN <<>>
    ELSE LET last == Min(i + GLINER_SEGMENT_WORDS, Len(word_spans))
         IN  <<<<word_spans[i + 1][1], word_spans[last][2]>>>>
                 \o Segments(word_spans, i + GLINER_SEGMENT_WORDS - GLINER_OVERLAP_WORDS)

RECURSIVE PredictSegments(_, _, _, _)
PredictSegments(model, text, segs, acc) ==
    IF segs = <<>> THEN acc
    ELSE PredictSegments(model, text, Tail(segs),
            AddPredictions(acc,
                predict_entities(model, PySlice(text, Head(segs)[1], Head(segs)[2])),
                Head(segs)[1]))

NoEntities == [seen |-> {}, entities |-> <<>>]

_predict_on_segments(model, text) ==
    LET word_spans == WordSpans(text)
    IN  IF Len(word_spans) <= GLINER_SEGMENT_WORDS
        THEN predict_entities(model, text)
        ELSE PredictSegments(model, text, Segments(word_spans, 0), NoEntities).entities

\* detect_entities(text); raises: model.predict_entities raises
detect_entities(model, raises, text) ==
    LET entities == IF ~model.loaded \/ raises THEN <<>>
                    ELSE _predict_on_segments(model, text)
    IN  SortByStart(ApplyRegex(entities, text, REGEX_PATTERNS))

\* the model part of _batch_detect_entities for one text of the batch
BatchSegments(text) ==
    LET word_spans == WordSpans(text)
    IN  IF word_spans = <<>> THEN <<>>
        ELSE IF Len(word_spans) <= GLINER_SEGMENT_WORDS THEN <<<<0, Len(text)>>>>
        ELSE Segments(word_spans, 0)

\* _batch_detect_entities(texts); raises: the one batched predict_entities call raises
_batch_detect_entities(model, raises, texts) ==
    [k \in 1..Len(texts) |->
        LET results == IF ~model.loaded \/ raises THEN <<>>
                       ELSE PredictSegments(model, texts[k], BatchSegments(texts[k]),
                                            NoEntities).entities
        IN  SortByStart(ApplyRegex(results, texts[k], REGEX_PATTERNS))]

-----------------------------------------------------------------------------
(* anonymization_service.py: the mapping store and the anonymizer *)

\* AnonymizationMapping(project_id, entity_type, original_value, anonymized_value);
\* is_active defaults to True.  "by" is a ghost field: the process that added the row.
AnonymizationMapping(project_id, entity_type, original_value, anonymized_value, by) ==
    [project_id |-> project_id, entity_type |-> entity_type,
     original_value |-> original_value, anonymized_value |-> anonymized_value,
     is_active |-> TRUE, by |-> by]

\* a variant whose SELECT has no project_id condition
ActiveRowsOfAnyProject(rows, project_id) == {k \in 1..Len(rows) : rows[k].is_active}

\* the rows the two SELECTs of get_mappings / get_mappings_by_placeholder return
ActiveRows(rows, project_id) ==
    {k \in 1..Len(rows) : rows[k].project_id = project_id /\ rows[k].is_active}

\* get_mappings: {m.original_value: m for m in mappings}.  The SELECT has no ORDER BY,
\* so when several rows carry one original value any of them may be the one kept.
\* A dict is modelled as the set of its values; its keys are their original_value.
get_mappings(rows, project_id) ==
    LET idx == ActiveRows(rows, project_id)
        keys == {rows[k].original_value : k \in idx}
    IN  {{rows[f[v]] : v \in keys} :
            f \in {g \in [keys -> idx] : \A v \in keys : rows[g[v]].original_value = v}}

\* a variant whose counters start from zero in every call
TypeCountsFromZero(existing_mappings) == [t \in EntityType |-> 0]

\* type_counts[mapping.entity_type] += 1 for mapping in existing_mappings.values()
TypeCounts(existing_mappings) ==
    [t \in EntityType |-> Cardinality({m \in existing_mappings : m.entity_type = t})]

\* the state of the entity loop: the dict, the counters, the rows db.add()ed,
\* the replacements of the current text, and (history) the substitutions made
LoopState(existing_mappings, type_counts) ==
    [existing_mappings |-> existing_mappings, type_counts |-> type_counts,
     added |-> <<>>, replacements |-> <<>>, subs |-> <<>>]

\* one iteration of "for entity_text, label, start, end in entities"
EntityStep(st, e, project_id, by) ==
    LET entity_text_clean == Strip(e.text)
        known == {m \in st.existing_mappings : m.original_value = entity_text_clean}
        entity_type == LABEL_TO_ENTITY_TYPE(e.label)
        prefix == ENTITY_PREFIXES(entity_type)
        n == st.type_counts[entity_type] + 1
        new_mapping == AnonymizationMapping(project_id, entity_type, entity_text_clean,
                                            Placeholder(prefix, n), by)
        placeholder == IF known # {} THEN (CHOOSE m \in known : TRUE).anonymized_value
                       ELSE Placeholder(prefix, n)
        st1 == IF known # {} THEN st
               ELSE [st EXCEPT !.type_counts[entity_type] = n,
                               !.added = Append(@, new_mapping),
                               !.existing_mappings = @ \cup {new_mapping}]
    IN  IF CharLen(entity_text_clean) < 2 THEN st
        ELSE [st1 EXCEPT !.replacements = Append(@, <<e.start, e.end, placeholder>>),
                         !.subs = Append(@, [value |-> entity_text_clean,
                                             placeholder |-> placeholder])]

RECURSIVE EntityLoop(_, _, _, _)
EntityLoop(st, entities, project_id, by) ==
    IF entities = <<>> THEN st
    ELSE EntityLoop(EntityStep(st, Head(entities), project_id, by),
                    Tail(entities), project_id, by)

\* for start, end, placeholder in reversed(replacements):
\*     result = result[:start] + placeholder + result[end:]
RECURSIVE ApplyReplacements(_, _)
ApplyReplacements(result, reversed) ==
    IF reversed = <<>> THEN result
    ELSE LET r == Head(reversed)
         IN  ApplyReplacements(PySlice(result, 0, r[1]) \o r[3] \o PyFrom(result, r[2]),
                               Tail(reversed))

\* anonymize_text after the mappings are read, for the entities the detector returned
anonymize_text(text, existing_mappings, entities, project_id, by) ==
    LET st == EntityLoop(LoopState(existing_mappings, TypeCounts(existing_mappings)),
                         entities, project_id, by)
    IN  [result |-> ApplyReplacements(text, Reverse(st.replacements)),
         added |-> st.added, subs |-> st.subs]

\* the "for text, entities in zip(texts, all_entities)" loop of anonymize_chunks_batch
RECURSIVE BatchLoop(_, _, _, _, _, _)
BatchLoop(st, results, texts, all_entities, project_id, by) ==
    IF texts = <<>> \/ all_entities = <<>> THEN [results |-> results, added |-> st.added,
                                               subs |-> st.subs]
    ELSE LET st1 == EntityLoop([st EXCEPT !.replacements = <<>>], Head(all_entities),
                               project_id, by)
         IN  BatchLoop(st1,
                       Append(results, ApplyReplacements(Head(texts), Reverse(st1.replacements))),
                       Tail(texts), Tail(all_entities), project_id, by)

\* a variant of the batch whose counters start from zero
anonymize_chunks_batchFromZero(texts, existing_mappings, all_entities, project_id, by) ==
    BatchLoop(LoopState(existing_mappings, TypeCountsFromZero(existing_mappings)),
              <<>>, texts, all_entities, project_id, by)

\* anonymize_chunks_batch after the mappings are read
anonymize_chunks_batch(texts, existing_mappings, all_entities, project_id, by) ==
    BatchLoop(LoopState(existing_mappings, TypeCounts(existing_mappings)),
              <<>>, texts, all_entities, project_id, by)

\* get_mappings_by_placeholder: {m.anonymized_value: m.original_value for m in mappings},
\* as the sequence of its items: a key keeps the place of its first row and the
\* value of its last one
RECURSIVE DictItems(_, _)
DictItems(rows, items) ==
    IF rows = <<>> THEN items
    ELSE LET m == Head(rows)
             at == {k \in 1..Len(items) : items[k][1] = m.anonymized_value}
         IN  DictItems(Tail(rows),
                 IF at = {} THEN Append(items, <<m.anonymized_value, m.original_value>>)
                 ELSE [items EXCEPT ![CHOOSE k \in at : TRUE] =
                                        <<m.anonymized_value, m.original_value>>])

ActiveSeq(rows, project_id) ==
    SelectSeq(rows, LAMBDA m : m.project_id = project_id /\ m.is_active)

get_mappings_by_placeholder(rows, project_id) == DictItems(ActiveSeq(rows, project_id), <<>>)

\* for placeholder, original in mappings.items(): result = result.replace(...)
RECURSIVE ReplaceAll(_, _)
ReplaceAll(result, items) ==
    IF items = <<>> THEN result
    ELSE ReplaceAll(Replace(result, Head(items)[1], Head(items)[2]), Tail(items))

\* deanonymize_text against the rows the session sees
deanonymize_text(anonymized_text, rows, project_id) ==
    IF anonymized_text = <<>> THEN anonymized_text
    ELSE ReplaceAll(anonymized_text, get_mappings_by_placeholder(rows, project_id))

-----------------------------------------------------------------------------
(* document_service.py: the chunker *)

CHUNK_SIZE == 350
CHUNK_OVERLAP == 50
MIN_CHUNK_WORDS == 20

\* a variant whose windows do not overlap: range(0, len(words), CHUNK_SIZE)
RECURSIVE ChunkLoopDisjoint(_, _, _, _)
ChunkLoopDisjoint(chunks_, words, i, meta) ==
    IF i >= Len(words) THEN chunks_
    ELSE LET chunk_words == PySlice(words, i, i + CHUNK_SIZE)
             chunk == [id |-> <<meta.document_id, Len(chunks_)>>,
                       content |-> Join(<<" ">>, chunk_words),
                       document_id |-> meta.document_id,
                       category |-> meta.category,
                       page_number |-> meta.page_number,
                       section_title |-> meta.section_title,
                       chunk_index |-> Len(chunks_)]
         IN  ChunkLoopDisjoint(IF Len(chunk_words) < MIN_CHUNK_WORDS THEN chunks_
                               ELSE Append(chunks_, chunk),
                               words, i + CHUNK_SIZE, meta)

\* a variant that also drops a window of exactly 20 words: len(chunk_words) <= 20
RECURSIVE ChunkLoopFloorExcluded(_, _, _, _)
ChunkLoopFloorExcluded(chunks_, words, i, meta) ==
    IF i >= Len(words) THEN chunks_
    ELSE LET chunk_words == PySlice(words, i, i + CHUNK_SIZE)
             chunk == [id |-> <<meta.document_id, Len(chunks_)>>,
                       content |-> Join(<<" ">>, chunk_words),
                       document_id |-> meta.document_id,
                       category |-> meta.category,
                       page_number |-> meta.page_number,
                       section_title |-> meta.section_title,
                       chunk_index |-> Len(chunks_)]
         IN  ChunkLoopFloorExcluded(IF Len(chunk_words) <= MIN_CHUNK_WORDS THEN chunks_
                                    ELSE Append(chunks_, chunk),
                                    words, i + CHUNK_SIZE - CHUNK_OVERLAP, meta)

\* a variant that drops every window shorter than the overlap and 20 words more
RECURSIVE ChunkLoopFloorAboveOverlap(_, _, _, _)
ChunkLoopFloorAboveOverlap(chunks_, words, i, meta) ==
    IF i >= Len(words) THEN chunks_
    ELSE LET chunk_words == PySlice(words, i, i + CHUNK_SIZE)
             chunk == [id |-> <<meta.document_id, Len(chunks_)>>,
                       content |-> Join(<<" ">>, chunk_words),
                       document_id |-> meta.document_id,
                       category |-> meta.category,
                       page_number |-> meta.page_number,
                       section_title |-> meta.section_title,
                       chunk_index |-> Len(chunks_)]
         IN  ChunkLoopFloorAboveOverlap(
                 IF Len(chunk_words) < CHUNK_OVERLAP + MIN_CHUNK_WORDS THEN chunks_
                 ELSE Append(chunks_, chunk),
                 words, i + CHUNK_SIZE - CHUNK_OVERLAP, meta)

\* for i in range(0, len(words), CHUNK_SIZE - CHUNK_OVERLAP): one unit's chunks,
\* appended to chunks; meta carries the fields every chunk of the unit shares
RECURSIVE ChunkLoop(_, _, _, _)
ChunkLoop(chunks_, words, i, meta) ==
    IF i >= Len(words) THEN chunks_
    ELSE LET chunk_words == PySlice(words, i, i + CHUNK_SIZE)
             chunk == [id |-> <<meta.document_id, Len(chunks_)>>,
                       content |-> Join(<<" ">>, chunk_words),
                       document_id |-> meta.document_id,
                       category |-> meta.category,
                       page_number |-> meta.page_number,
                       section_title |-> meta.section_title,
                       chunk_index |-> Len(chunks_)]
         IN  ChunkLoop(IF Len(chunk_words) < MIN_CHUNK_WORDS THEN chunks_
                       ELSE Append(chunks_, chunk),
                       words, i + CHUNK_SIZE - CHUNK_OVERLAP, meta)

\* a variant that numbers the chunks of each page from 0
RECURSIVE PageLoopNumberedPerPage(_, _, _, _)
PageLoopNumberedPerPage(chunks_, pages_data, document_id, category) ==
    IF pages_data = <<>> THEN chunks_
    ELSE LET page == Head(pages_data)
             next == IF Strip(page.text) = <<>> THEN chunks_
                     ELSE chunks_ \o ChunkLoop(<<>>, Split(page.text), 0,
                              [document_id |-> document_id, category |-> category,
                               page_number |-> page.page_number,
                               section_title |-> IF page.sections # <<>>
                                                 THEN page.sections[1] ELSE <<>>])
         IN  PageLoopNumberedPerPage(next, Tail(pages_data), document_id, category)

\* the page-aware branch: for page in pages_data
RECURSIVE PageLoop(_, _, _, _)
PageLoop(chunks_, pages_data, document_id, category) ==
    IF pages_data = <<>> THEN chunks_
    ELSE LET page == Head(pages_data)
             next == IF Strip(page.text) = <<>> THEN chunks_
                     ELSE ChunkLoop(chunks_, Split(page.text), 0,
                              [document_id |-> document_id, category |-> category,
                               page_number |-> page.page_number,
                               section_title |-> IF page.sections # <<>>
                                                 THEN page.sections[1] ELSE <<>>])
         IN  PageLoop(next, Tail(pages_data), document_id, category)

\* create_chunks(text, document_id, document_name, category, pages_data);
\* pages_data = <<>> stands for None and for the empty list alike ("if pages_data")
create_chunks(text, document_id, category, pages_data) ==
    IF pages_data # <<>> THEN PageLoop(<<>>, pages_data, document_id, category)
    ELSE ChunkLoop(<<>>, Split(text), 0,
                   [document_id |-> document_id, category |-> category,
                    page_number |-> 0, section_title |-> <<>>])

-----------------------------------------------------------------------------
(* progress_service.py *)

NoRow == [none |-> TRUE]

STEPS == <<[key |-> "reading", label |-> <<"Lecture du fichier">>, pct |-> 10],
           [key |-> "extracting_text", label |-> <<"Extraction du texte">>, pct |-> 30],
           [key |-> "extracting_images", label |-> <<"Extraction des images">>, pct |-> 50],
           [key |-> "chunking", label |-> <<"Decoupage en chunks">>, pct |-> 65],
           [key |-> "anonymizing", label |-> <<"Anonymisation">>, pct |-> 75],
           [key |-> "indexing", label |-> <<"Indexation vectorielle">>, pct |-> 90],
           [key |-> "completed", label |-> <<"Termine">>, pct |-> 100],
           [key |-> "failed", label |-> <<"Echec">>, pct |-> -1]>>

ProgressEntry(step, step_label, pct) ==
    [step |-> step, step_label |-> step_label, progress |-> pct]

\* ProgressTracker.start(document_id, filename)
ProgressStart(prog, document_id) ==
    [prog EXCEPT ![document_id] = ProgressEntry("reading", <<"Lecture du fichier">>, 10)]

\* ProgressTracker.update(document_id, step_key)
ProgressUpdate(prog, document_id, step_key) ==
    LET found == {k \in 1..Len(STEPS) : STEPS[k].key = step_key}
    IN  IF found = {} \/ prog[document_id] = NoRow THEN prog
        ELSE LET step == STEPS[CHOOSE k \in found : \A j \in found : k <= j]
             IN  [prog EXCEPT ![document_id] = ProgressEntry(step.key, step.label, step.pct)]

ERROR_LABEL_CHARS == 120

\* a variant that keeps the whole error in the label
ProgressFailWhole(prog, document_id, error) ==
    IF prog[document_id] = NoRow THEN prog
    ELSE [prog EXCEPT ![document_id] = ProgressEntry("failed", <<"Echec: ">> \o error, -1)]

\* ProgressTracker.fail(document_id, error): error is a sequence of characters
ProgressFail(prog, document_id, error) ==
    IF prog[document_id] = NoRow THEN prog
    ELSE [prog EXCEPT ![document_id] =
              ProgressEntry("failed",
                            <<"Echec: ">> \o PySlice(error, 0, ERROR_LABEL_CHARS), -1)]

\* the steps a sequence of update() calls writes, one after the other
RECURSIVE ProgressUpdates(_, _, _)
ProgressUpdates(prog, document_id, keys) ==
    IF keys = <<>> THEN prog
    ELSE ProgressUpdates(ProgressUpdate(prog, document_id, Head(keys)), document_id, Tail(keys))

-----------------------------------------------------------------------------
(* vector_service.py *)

\* index_chunks: documents.append(f"passage: {chunk['content']}") with its metadata
Vector(chunk) ==
    [id |-> chunk.id, document |-> <<"passage: ">> \o chunk.content,
     document_id |-> chunk.document_id, category |-> chunk.category,
     page_number |-> chunk.page_number, chunk_index |-> chunk.chunk_index]

index_chunks(coll, vector_chunks) ==
    coll \o [k \in 1..Len(vector_chunks) |-> Vector(vector_chunks[k])]

\* get_collection(project_id): get_client(), get_embedding_function(), then
\* client.get_or_create_collection.  Each may raise; a singleton that was set stays set.
GetCollection ==
    {[raises |-> FALSE, _client |-> TRUE, _embedding_fn |-> TRUE]} \cup
    (IF faults > 0
     THEN {[raises |-> TRUE, _client |-> TRUE, _embedding_fn |-> TRUE]}
          \cup (IF _client THEN {}
                ELSE {[raises |-> TRUE, _client |-> FALSE, _embedding_fn |-> _embedding_fn]})
          \cup (IF _embedding_fn THEN {}
                ELSE {[raises |-> TRUE, _client |-> TRUE, _embedding_fn |-> FALSE]})
     ELSE {})

\* the ordered selections of k elements of the set S
RECURSIVE Arrangements(_, _)
Arrangements(S, k) ==
    IF k = 0 \/ S = {} THEN {<<>>}
    ELSE UNION {{<<x>> \o a : a \in Arrangements(S \ {x}, k - 1)} : x \in S}

\* search(project_id, query, top_k, category_filter): the result lists the backend can
\* return, nearest first; which vectors are nearest is the embedding model's business.
\* category_filter = "" stands for None.
search(coll, top_k, category_filter) ==
    LET match == {k \in 1..Len(coll) :
                     category_filter = "" \/ coll[k].category = category_filter}
    IN  {[j \in 1..Len(a) |-> [chunk_id |-> coll[a[j]].id, content |-> coll[a[j]].document,
                               category |-> coll[a[j]].category,
                               page_number |-> coll[a[j]].page_number]] :
            a \in Arrangements(match, Min(top_k, Cardinality(match)))}

-----------------------------------------------------------------------------
(* The scenario: two uploaded documents of project p1, each ingested by    *)
(* one background run; a gap-analysis request on p1 and a custom-prompt    *)
(* chapter request on p2.  Coroutines interleave at their awaits only.     *)

MaxFaults == 2
ShortErrorChars == 3

Projects == {"p1", "p2"}
Docs == {"d1", "d2"}
Runs == {"r1", "r2"}
Reqs == {"q1", "q2"}
Procs == Runs \cup Reqs

DocOf(r) == IF r = "r1" THEN "d1" ELSE "d2"
DocProject(d) == "p1"
DocCategory(d) == IF d = "d1" THEN "old_rfp" ELSE "new_rfp"
ReqProject(q) == IF q = "q1" THEN "p1" ELSE "p2"

FileType == {"pdf", "docx", "doc", "xlsx", "xls", "pptx", "other"}

Filler(n) == [k \in 1..(2 * n) |-> IF k % 2 = 1 THEN " " ELSE "mot"]
TEmpty == <<>>
TBlank == <<" ", "\n">>
TShort == <<"Jean">> \o Filler(MIN_CHUNK_WORDS - 2)
TJean == <<"Jean">> \o Filler(MIN_CHUNK_WORDS - 1)
TMarie == <<"Marie">> \o Filler(MIN_CHUNK_WORDS - 1)
TBoth == <<"Marie", " ", "Jean">> \o Filler(MIN_CHUNK_WORDS - 2)

\* what text extraction can yield for a stored file
\* three pages: CHUNK_SIZE - CHUNK_OVERLAP + MIN_CHUNK_WORDS words, half of
\* MIN_CHUNK_WORDS words, MIN_CHUNK_WORDS words
TPages == <<"Jean">> \o Filler(CHUNK_SIZE - CHUNK_OVERLAP + MIN_CHUNK_WORDS - 1) \o <<"\f">>
              \o <<"mot">> \o Filler(MIN_CHUNK_WORDS \div 2 - 1) \o <<"\f">>
              \o <<"Marie">> \o Filler(MIN_CHUNK_WORDS - 1)

DocTexts == {TEmpty, TBlank, TShort, TJean, TMarie, TBoth, TPages}
\* what a user can type as chapter content or custom prompt
ReqTexts == {<<"Jean", " ", "x">>}

\* the tags of the loaded NER model
MODEL == GLiNER({[text |-> <<"Jean">>, label |-> "person"],
                 [text |-> <<"Marie">>, label |-> "person"],
                 [text |-> <<"x">>, label |-> "person"],
                 [text |-> <<"acme">>, label |-> "organization"]})

\* str(e) of the exceptions the collaborators raise
Chars(n) == [k \in 1..n |-> "e"]
Errors == {Chars(ShortErrorChars), Chars(ERROR_LABEL_CHARS + 1)}

NoSession == [mappings |-> <<>>, chunks |-> <<>>, poisoned |-> FALSE]
\* the locals of a run and, as history, what happened to it: the extracted text was
\* blank, an exception reached the handler (with its str(e)), the handler's own
\* status update raised and was swallowed
RunLocal == [text |-> <<>>, pages_data |-> <<>>, chunks |-> <<>>,
             anonymized_texts |-> <<>>, error |-> <<>>, raised |-> FALSE, empty |-> FALSE,
             swallowed |-> FALSE]
\* what is left of them when the coroutine returns
Returned(l, swallowed) ==
    [RunLocal EXCEPT !.error = l.error, !.raised = l.raised, !.empty = l.empty,
                     !.swallowed = swallowed]
ReqLocal == [texts |-> <<>>, results |-> <<>>]

\* the Document row upload_document commits; file is what file_path holds, as the
\* text a faultless extraction gets out of it
Document(d, file_type, file) ==
    [project_id |-> DocProject(d), category |-> DocCategory(d), file_type |-> file_type,
     file |-> file, processing_status |-> "pending", chunk_count |-> 0]

Init ==
    /\ mappings = <<>>
    /\ chunks = <<>>
    /\ documents = [d \in Docs |-> NoRow]
    /\ collection = [p \in Projects |-> <<>>]
    /\ progress = [d \in Docs |-> NoRow]
    /\ progress_log = [d \in Docs |-> <<>>]
    /\ session = [p \in Procs |-> NoSession]
    /\ pc = [p \in Procs |-> "idle"]
    /\ local = [p \in Procs |-> IF p \in Runs THEN RunLocal ELSE ReqLocal]
    /\ issued = {}
    /\ faults = MaxFaults
    /\ _model = NoModel
    /\ inp = [stage |-> "none"]
    /\ out = [stage |-> "none"]
    /\ _client = FALSE
    /\ _embedding_fn = FALSE
    /\ loop = "free"
    /\ inference = [m \in {"ner", "embedding"} |-> {}]

\* the rows a session's SELECT sees: the committed ones and its own flushed ones
Visible(p) == mappings \o session[p].mappings

\* _get_model(): the singleton after the call; loading may fail and is retried next time
GetModel == IF _model.loaded THEN {_model}
            ELSE {MODEL} \cup (IF faults > 0 THEN {NoModel} ELSE {})

Issue(project_id, subs) ==
    {[project_id |-> project_id, value |-> subs[k].value, placeholder |-> subs[k].placeholder] :
        k \in 1..Len(subs)}

-----------------------------------------------------------------------------
(* documents.py: upload_document and process_document_background *)

RunOf(d) == CHOOSE r \in Runs : DocOf(r) = d

\* upload_document: the row is committed PENDING and the background task scheduled
upload_document(d, file_type, file) ==
    /\ documents[d] = NoRow
    /\ pc[RunOf(d)] = "idle"
    /\ documents' = [documents EXCEPT ![d] = Document(d, file_type, file)]
    /\ pc' = [pc EXCEPT ![RunOf(d)] = "start"]
    /\ UNCHANGED <<mappings, chunks, collection, progress, progress_log, session, local,
                   issued, faults, _model, inp, out,
                   _client, _embedding_fn, loop, inference>>

\* a variant in which the handler finds a usable session whatever was raised, as it
\* would after a rollback
RaisedRollsBack(r, e, db_error) ==
    /\ faults > 0
    /\ faults' = faults - 1
    /\ local' = [local EXCEPT ![r].error = e, ![r].raised = TRUE]
    /\ session' = [session EXCEPT ![r].poisoned = FALSE]
    /\ pc' = [pc EXCEPT ![r] = "except"]

\* an exception reaches the "except Exception as e" of the run; a failed database
\* call leaves the session unusable until a rollback, which the run never issues
Raised(r, e, db_error) ==
    /\ faults > 0
    /\ faults' = faults - 1
    /\ local' = [local EXCEPT ![r].error = e, ![r].raised = TRUE]
    /\ session' = [session EXCEPT ![r].poisoned = @ \/ db_error]
    /\ pc' = [pc EXCEPT ![r] = "except"]

\* an exception that the state of the database or of the disk makes certain
Caught(r, e, db_error) ==
    /\ local' = [local EXCEPT ![r].error = e, ![r].raised = TRUE]
    /\ session' = [session EXCEPT ![r].poisoned = @ \/ db_error]
    /\ pc' = [pc EXCEPT ![r] = "except"]
    /\ UNCHANGED faults

\* what file_path holds once os.remove(document.file_path) has run
NoFile == <<"ENOENT">>

\* the file of the document is on the disk
FileExists(d) == documents[d] # NoRow /\ documents[d].file # NoFile

Log(d, keys) == [progress_log EXCEPT ![d] = @ \o keys]

\* lines 35-42: load the document, ProgressTracker.start, PROCESSING, commit
RunBegin(r) ==
    LET d == DocOf(r)
    IN  /\ pc[r] = "start"
        /\ IF documents[d] = NoRow
           THEN /\ pc' = [pc EXCEPT ![r] = "done"]
                /\ UNCHANGED <<documents, progress, progress_log, session, local, faults>>
           ELSE /\ progress' = ProgressStart(progress, d)
                /\ progress_log' = Log(d, <<"reading">>)
                /\ \/ /\ documents' = [documents EXCEPT ![d].processing_status = "processing"]
                      /\ pc' = [pc EXCEPT ![r] = "extract"]
                      /\ UNCHANGED <<session, local, faults>>
                   \/ /\ \E e \in Errors : Raised(r, e, TRUE)
                      /\ UNCHANGED documents
        /\ UNCHANGED <<mappings, chunks, collection, issued, _model, inp, out,
                   _client, _embedding_fn, loop, inference>>

Page(page_number, text) == [page_number |-> page_number, text |-> text, sections |-> <<>>]

\* the texts of the pages of a PDF file: in a file, a form feed ends a page
RECURSIVE PageTexts(_)
PageTexts(file) ==
    LET at == {k \in 1..Len(file) : file[k] = "\f"}
    IN  IF at = {} THEN <<file>>
        ELSE <<SubSeq(file, 1, SetMin(at) - 1)>>
                 \o PageTexts(SubSeq(file, SetMin(at) + 1, Len(file)))

\* extract_text_from_pdf(file_content): "\n\n".join(full_text_parts) and pages_data
extract_text_from_pdf(file) ==
    LET parts == PageTexts(file)
    IN  [text |-> Join(<<"\n", "\n">>, parts),
         pages_data |-> [k \in 1..Len(parts) |-> Page(k, parts[k])]]

\* a variant in which the Excel branch announces an image extraction as the others do
ExtractOutcomesImagesForAll(file_type, file) ==
    LET ok(text, pages_data, steps) ==
            [text |-> text, pages_data |-> pages_data, steps |-> steps, raises |-> FALSE]
        raise(steps) ==
            [text |-> <<>>, pages_data |-> <<>>, steps |-> steps, raises |-> TRUE]
    IN  {raise(<<>>)} \cup
        (CASE file_type = "pdf" ->
                {ok(extract_text_from_pdf(file).text, extract_text_from_pdf(file).pages_data,
                    <<"extracting_text", "extracting_images">>),
                 raise(<<"extracting_text">>)}
           [] file_type \in {"doc", "docx", "xlsx", "xls"} ->
                {ok(file, <<>>, <<"extracting_text", "extracting_images">>),
                 ok(<<>>, <<>>, <<"extracting_text">>)}
           [] OTHER -> {ok(<<>>, <<>>, <<"extracting_text">>)})

\* what lines 45-86 can leave behind: the text, the pages, the steps reported, and
\* whether an exception left the block.  open() may raise for every type; the PDF and
\* Excel extractors run outside any try, the DOC and DOCX ones inside one.
ExtractOutcomes(file_type, file) ==
    LET ok(text, pages_data, steps) ==
            [text |-> text, pages_data |-> pages_data, steps |-> steps, raises |-> FALSE]
        raise(steps) ==
            [text |-> <<>>, pages_data |-> <<>>, steps |-> steps, raises |-> TRUE]
    IN  {raise(<<>>)} \cup
        (CASE file_type = "pdf" ->
                {ok(extract_text_from_pdf(file).text, extract_text_from_pdf(file).pages_data,
                    <<"extracting_text", "extracting_images">>),
                 raise(<<"extracting_text">>),
                 raise(<<"extracting_text", "extracting_images">>)}
           [] file_type \in {"doc", "docx"} ->
                {ok(file, <<>>, <<"extracting_text", "extracting_images">>),
                 ok(<<>>, <<>>, <<"extracting_text">>),
                 ok(<<>>, <<>>, <<"extracting_text", "extracting_images">>)}
           [] file_type \in {"xlsx", "xls"} ->
                {ok(file, <<>>, <<"extracting_text">>), raise(<<"extracting_text">>)}
           [] OTHER -> {ok(<<>>, <<>>, <<"extracting_text">>)})

\* lines 45-86: read the file and extract its text
RunExtract(r) ==
    LET d == DocOf(r)
        outcomes == IF FileExists(d)
                    THEN ExtractOutcomes(documents[d].file_type, documents[d].file)
                    ELSE {[text |-> <<>>, pages_data |-> <<>>, steps |-> <<>>,
                           raises |-> TRUE]}
    IN  /\ pc[r] = "extract"
        /\ \E x \in outcomes :
              /\ progress' = ProgressUpdates(progress, d, x.steps)
              /\ progress_log' = Log(d, x.steps)
              /\ IF x.raises
                 THEN \E e \in Errors :
                          IF FileExists(d) THEN Raised(r, e, FALSE) ELSE Caught(r, e, FALSE)
                 ELSE /\ local' = [local EXCEPT ![r].text = x.text,
                                                ![r].pages_data = x.pages_data,
                                                ![r].empty =
                                                    \A k \in 1..Len(x.text) : IsSpace(x.text[k])]
                      /\ pc' = [pc EXCEPT ![r] = "check"]
                      /\ UNCHANGED <<session, faults>>
        /\ UNCHANGED <<mappings, chunks, documents, collection, issued, _model, inp, out,
                   _client, _embedding_fn, loop, inference>>

NO_TEXT_MESSAGE == <<"Aucun texte extrait du document">>

\* lines 87-91: no text, FAILED, commit, return
RunEmptyText(r) ==
    LET d == DocOf(r)
    IN  /\ pc[r] = "check"
        /\ Strip(local[r].text) = <<>>
        /\ progress' = ProgressFail(progress, d, NO_TEXT_MESSAGE)
        /\ progress_log' = Log(d, <<"failed">>)
        /\ \/ /\ documents[d] # NoRow
              /\ documents' = [documents EXCEPT ![d].processing_status = "failed"]
              /\ pc' = [pc EXCEPT ![r] = "done"]
              /\ local' = [local EXCEPT ![r] = Returned(@, FALSE)]
              /\ session' = [session EXCEPT ![r] = NoSession]
              /\ UNCHANGED faults
           \/ /\ \E e \in Errors :
                    IF documents[d] = NoRow THEN Caught(r, e, TRUE) ELSE Raised(r, e, TRUE)
              /\ UNCHANGED documents
        /\ UNCHANGED <<mappings, chunks, collection, issued, _model, inp, out,
                   _client, _embedding_fn, loop, inference>>

\* lines 93-105: create_chunks and the two progress updates
RunChunk(r) ==
    LET d == DocOf(r)
    IN  /\ pc[r] = "check"
        /\ Strip(local[r].text) # <<>>
        /\ progress' = ProgressUpdates(progress, d, <<"chunking", "anonymizing">>)
        /\ progress_log' = Log(d, <<"chunking", "anonymizing">>)
        /\ local' = [local EXCEPT ![r].chunks =
                        create_chunks(local[r].text, d,
                                      IF documents[d] = NoRow THEN DocCategory(d)
                                      ELSE documents[d].category,
                                      local[r].pages_data)]
        /\ pc' = [pc EXCEPT ![r] = "anonymize"]
        /\ UNCHANGED <<mappings, chunks, documents, collection, session, issued, faults,
                       _model, inp, out,
                   _client, _embedding_fn, loop, inference>>

\* lines 106-108: anonymize_chunks_batch(chunk_texts, project_id, db)
RunAnonymize(r) ==
    LET d == DocOf(r)
        project_id == DocProject(d)
        chunk_texts == [k \in 1..Len(local[r].chunks) |-> local[r].chunks[k].content]
    IN  /\ pc[r] = "anonymize"
        /\ IF chunk_texts = <<>>
           THEN /\ pc' = [pc EXCEPT ![r] = "index"]
                /\ UNCHANGED <<session, local, issued, faults, _model>>
           ELSE \E existing_mappings \in get_mappings(Visible(r), project_id) :
                \E model \in GetModel :
                LET res == anonymize_chunks_batch(chunk_texts, existing_mappings,
                               _batch_detect_entities(model, FALSE, chunk_texts),
                               project_id, r)
                IN  /\ _model' = model
                    /\ \/ /\ session' = [session EXCEPT ![r].mappings = @ \o res.added]
                          /\ local' = [local EXCEPT ![r].anonymized_texts = res.results]
                          /\ issued' = issued \cup Issue(project_id, res.subs)
                          /\ pc' = [pc EXCEPT ![r] = "index"]
                          /\ faults' = faults - (IF model.loaded THEN 0 ELSE 1)
                       \/ /\ model.loaded
                          /\ \E e \in Errors : Raised(r, e, TRUE)
                          /\ UNCHANGED issued
        /\ UNCHANGED <<mappings, chunks, documents, collection, progress, progress_log,
                       inp, out,
                   _client, _embedding_fn, loop, inference>>

\* DocumentChunk(document_id, chunk_index, content, anonymized_content, ...)
DocumentChunk(chunk_data, anonymized) ==
    [document_id |-> chunk_data.document_id, chunk_index |-> chunk_data.chunk_index,
     content |-> chunk_data.content, anonymized_content |-> anonymized,
     page_number |-> chunk_data.page_number]

\* lines 126-138: the dicts handed to the indexer
vector_chunks(chunks_) ==
    [k \in 1..Len(chunks_) |->
        [id |-> chunks_[k].id, content |-> chunks_[k].content,
         document_id |-> chunks_[k].document_id, category |-> chunks_[k].category,
         page_number |-> chunks_[k].page_number, chunk_index |-> chunks_[k].chunk_index]]

\* lines 109-154: add the chunk rows to the session, index the chunks
RunIndex(r) ==
    LET d == DocOf(r)
        project_id == DocProject(d)
        n == Min(Len(local[r].chunks), Len(local[r].anonymized_texts))
        rows == [k \in 1..n |-> DocumentChunk(local[r].chunks[k], local[r].anonymized_texts[k])]
    IN  /\ pc[r] = "index"
        /\ progress' = ProgressUpdate(progress, d, "indexing")
        /\ progress_log' = Log(d, <<"indexing">>)
        /\ \/ /\ collection' = [collection EXCEPT ![project_id] =
                                   index_chunks(@, vector_chunks(local[r].chunks))]
              /\ _client' = TRUE
              /\ _embedding_fn' = TRUE
              /\ session' = [session EXCEPT ![r].chunks = @ \o rows]
              /\ pc' = [pc EXCEPT ![r] = "finish"]
              /\ UNCHANGED <<local, faults>>
           \/ /\ \E e \in Errors :
                    /\ faults > 0
                    /\ faults' = faults - 1
                    /\ local' = [local EXCEPT ![r].error = e, ![r].raised = TRUE]
                    /\ session' = [session EXCEPT ![r].chunks = @ \o rows]
                    /\ pc' = [pc EXCEPT ![r] = "except"]
              /\ \E g \in GetCollection :
                    /\ _client' = g._client
                    /\ _embedding_fn' = g._embedding_fn
              /\ UNCHANGED collection
        /\ UNCHANGED <<mappings, chunks, documents, issued, _model, inp, out,
                   loop, inference>>

\* lines 156-178: chunk_count, COMPLETED, the "completed" progress step, commit
RunFinish(r) ==
    LET d == DocOf(r)
    IN  /\ pc[r] = "finish"
        /\ progress' = ProgressUpdate(progress, d, "completed")
        /\ progress_log' = Log(d, <<"completed">>)
        /\ \/ /\ ~session[r].poisoned
              /\ documents[d] # NoRow
              /\ documents' = [documents EXCEPT ![d].processing_status = "completed",
                                                ![d].chunk_count = Len(local[r].chunks)]
              /\ mappings' = mappings \o session[r].mappings
              /\ chunks' = chunks \o session[r].chunks
              /\ session' = [session EXCEPT ![r] = NoSession]
              /\ local' = [local EXCEPT ![r] = Returned(@, FALSE)]
              /\ pc' = [pc EXCEPT ![r] = "done"]
              /\ UNCHANGED faults
           \/ /\ \E e \in Errors :
                    IF documents[d] = NoRow THEN Caught(r, e, TRUE) ELSE Raised(r, e, TRUE)
              /\ UNCHANGED <<documents, mappings, chunks>>
        /\ UNCHANGED <<collection, issued, _model, inp, out,
                   _client, _embedding_fn, loop, inference>>

\* lines 180-190: the top-level handler.  Its SELECT and commit run in the session the
\* pipeline used: they raise when that session is unusable or the database fails
\* again, and the inner "except Exception: pass" swallows it.  When the row is gone
\* the SELECT finds no document and nothing is committed; it raises when it has to
\* flush chunk rows that refer to the missing document.
RunExcept(r) ==
    LET d == DocOf(r)
    IN  /\ pc[r] = "except"
        /\ progress' = ProgressFail(progress, d, local[r].error)
        /\ progress_log' = Log(d, <<"failed">>)
        /\ pc' = [pc EXCEPT ![r] = "done"]
        /\ session' = [session EXCEPT ![r] = NoSession]
        /\ \/ /\ ~session[r].poisoned
              /\ documents[d] # NoRow
              /\ documents' = [documents EXCEPT ![d].processing_status = "failed"]
              /\ mappings' = mappings \o session[r].mappings
              /\ chunks' = chunks \o session[r].chunks
              /\ local' = [local EXCEPT ![r] = Returned(@, FALSE)]
              /\ UNCHANGED faults
           \/ /\ ~session[r].poisoned
              /\ documents[d] = NoRow
              /\ local' = [local EXCEPT ![r] = Returned(@, session[r].chunks # <<>>)]
              /\ UNCHANGED <<documents, mappings, chunks, faults>>
           \/ /\ session[r].poisoned \/ faults > 0
              /\ faults' = IF session[r].poisoned THEN faults ELSE faults - 1
              /\ local' = [local EXCEPT ![r] = Returned(@, TRUE)]
              /\ UNCHANGED <<documents, mappings, chunks>>
        /\ UNCHANGED <<collection, issued, _model, inp, out,
                   _client, _embedding_fn, loop, inference>>

-----------------------------------------------------------------------------
(* projects.py: analyze_gap; chapters.py: generate_chapter_content *)

GAP_TOP_K == 20

Contents(results) == [k \in 1..Len(results) |-> results[k].content]

\* analyze_gap, lines 219-231: the two searches and the 400 when a side is missing
analyze_gap(q) ==
    /\ q = "q1"
    /\ pc[q] = "idle"
    /\ \E old_rfp_chunks \in search(collection[ReqProject(q)], GAP_TOP_K, "old_rfp") :
       \E new_rfp_chunks \in search(collection[ReqProject(q)], GAP_TOP_K, "new_rfp") :
          LET old_rfp_content == Join(<<"\n", "\n">>, Contents(old_rfp_chunks))
              new_rfp_content == Join(<<"\n", "\n">>, Contents(new_rfp_chunks))
          IN  IF old_rfp_content = <<>> \/ new_rfp_content = <<>>
              THEN /\ pc' = [pc EXCEPT ![q] = "done"]
                   /\ UNCHANGED local
              ELSE /\ pc' = [pc EXCEPT ![q] = "anonymize"]
                   /\ local' = [local EXCEPT ![q].texts = <<old_rfp_content, new_rfp_content>>]
    /\ _client' = TRUE
    /\ _embedding_fn' = TRUE
    /\ UNCHANGED <<mappings, chunks, documents, collection, progress, progress_log, session,
                   issued, faults, _model, inp, out, loop, inference>>

\* generate_chapter_content, lines 233-235: action "custom" with a custom prompt;
\* the chapter's content may be empty
generate_chapter_content(q) ==
    /\ q = "q2"
    /\ pc[q] = "idle"
    /\ \E content \in {<<>>} \cup ReqTexts : \E custom_prompt \in ReqTexts :
          local' = [local EXCEPT ![q].texts = <<content, custom_prompt>>]
    /\ pc' = [pc EXCEPT ![q] = "anonymize"]
    /\ UNCHANGED <<mappings, chunks, documents, collection, progress, progress_log, session,
                   issued, faults, _model, inp, out,
                   _client, _embedding_fn, loop, inference>>

\* one "await AnonymizationService.anonymize_text(text, project_id, db)" of a request;
\* an exception of the flush leaves the handler and the session is closed
RequestAnonymize(q) ==
    LET project_id == ReqProject(q)
        text == local[q].texts[Len(local[q].results) + 1]
        next == IF Len(local[q].results) + 1 = Len(local[q].texts) THEN "respond"
                ELSE "anonymize"
    IN  /\ q \in Reqs
        /\ pc[q] = "anonymize"
        /\ IF text = <<>>
           THEN /\ local' = [local EXCEPT ![q].results = Append(@, text)]
                /\ pc' = [pc EXCEPT ![q] = next]
                /\ UNCHANGED <<session, issued, faults, _model>>
           ELSE \E existing_mappings \in get_mappings(Visible(q), project_id) :
                \E model \in GetModel :
                LET res == anonymize_text(text, existing_mappings,
                                          detect_entities(model, FALSE, text), project_id, q)
                IN  /\ _model' = model
                    /\ \/ /\ session' = [session EXCEPT ![q].mappings = @ \o res.added]
                          /\ local' = [local EXCEPT ![q].results = Append(@, res.result)]
                          /\ issued' = issued \cup Issue(project_id, res.subs)
                          /\ pc' = [pc EXCEPT ![q] = next]
                          /\ faults' = faults - (IF model.loaded THEN 0 ELSE 1)
                       \/ /\ model.loaded
                          /\ faults > 0
                          /\ faults' = faults - 1
                          /\ session' = [session EXCEPT ![q] = NoSession]
                          /\ local' = [local EXCEPT ![q] = ReqLocal]
                          /\ pc' = [pc EXCEPT ![q] = "done"]
                          /\ UNCHANGED issued
        /\ UNCHANGED <<mappings, chunks, documents, collection, progress, progress_log,
                       inp, out,
                   _client, _embedding_fn, loop, inference>>

\* analyze_gap, lines 236-244: the AI call, deanonymize_text, return.  The handler
\* never commits: get_db closes the session and what it flushed is rolled back.
analyze_gap_return(q) ==
    /\ q = "q1"
    /\ pc[q] = "respond"
    /\ session' = [session EXCEPT ![q] = NoSession]
    /\ local' = [local EXCEPT ![q] = ReqLocal]
    /\ pc' = [pc EXCEPT ![q] = "done"]
    /\ UNCHANGED <<mappings, chunks, documents, collection, progress, progress_log,
                   issued, faults, _model, inp, out,
                   _client, _embedding_fn, loop, inference>>

\* generate_chapter_content, lines 239-246 and 305-309: the AI call, deanonymize_text,
\* commit; a failed commit loses what the session flushed
generate_chapter_content_commit(q) ==
    /\ q = "q2"
    /\ pc[q] = "respond"
    /\ \/ /\ mappings' = mappings \o session[q].mappings
          /\ UNCHANGED faults
       \/ /\ faults > 0
          /\ faults' = faults - 1
          /\ UNCHANGED mappings
    /\ session' = [session EXCEPT ![q] = NoSession]
    /\ local' = [local EXCEPT ![q] = ReqLocal]
    /\ pc' = [pc EXCEPT ![q] = "done"]
    /\ UNCHANGED <<chunks, documents, collection, progress, progress_log,
                   issued, _model, inp, out,
                   _client, _embedding_fn, loop, inference>>

-----------------------------------------------------------------------------

\* One uploaded document of any type and content, ingested by its run while the
\* collaborators (disk, extractors, database, vector store, NER model) may fail.
Next ==
    \/ \E file_type \in FileType : \E file \in DocTexts : upload_document("d1", file_type, file)
    \/ RunBegin("r1")
    \/ RunExtract("r1")
    \/ RunEmptyText("r1")
    \/ RunChunk("r1")
    \/ RunAnonymize("r1")
    \/ RunIndex("r1")
    \/ RunFinish("r1")
    \/ RunExcept("r1")

Spec == Init /\ [][Next]_vars

\* Two documents with names in them, ingested by concurrent runs, a gap analysis of
\* their project and a custom prompt on a chapter of another; no collaborator fails.
InitConcurrent ==
    /\ Init!1 /\ Init!2 /\ Init!3 /\ Init!4 /\ Init!5 /\ Init!6 /\ Init!7 /\ Init!8
    /\ Init!9 /\ Init!10 /\ Init!12 /\ Init!13 /\ Init!14
    /\ Init!15 /\ Init!16 /\ Init!17 /\ Init!18
    /\ faults = 0

NamedTexts == {TJean, TMarie, TBoth}

NextConcurrent ==
    \/ \E d \in Docs : \E file \in NamedTexts : upload_document(d, "xlsx", file)
    \/ \E r \in Runs : RunBegin(r)
    \/ \E r \in Runs : RunExtract(r)
    \/ \E r \in Runs : RunChunk(r)
    \/ \E r \in Runs : RunAnonymize(r)
    \/ \E r \in Runs : RunIndex(r)
    \/ \E r \in Runs : RunFinish(r)
    \/ analyze_gap("q1")
    \/ generate_chapter_content("q2")
    \/ \E q \in Reqs : RequestAnonymize(q)
    \/ analyze_gap_return("q1")
    \/ generate_chapter_content_commit("q2")

SpecConcurrent == InitConcurrent /\ [][NextConcurrent]_vars

-----------------------------------------------------------------------------
(* anonymize_text then deanonymize_text on one text, in a project without mappings *)

MaxTextAtoms == 4

TextAtoms == {"jean", "@", "acme", ".fr", " "}

RECURSIVE TextsUpTo(_)
TextsUpTo(n) ==
    IF n = 0 THEN {<<>>}
    ELSE LET shorter == TextsUpTo(n - 1)
         IN  shorter \cup {Append(t, a) : t \in {u \in shorter : Len(u) = n - 1}, a \in TextAtoms}

\* the NER model may be missing, or tag a name, or tag an organization
RoundTripModels ==
    {NoModel,
     GLiNER({[text |-> <<"jean">>, label |-> "person"]}),
     GLiNER({[text |-> <<"acme">>, label |-> "organization"]})}

\* "Contactez Jean Dupont à jean.dupont@acme.fr ou au 01 23 45 67 89"
EXAMPLE_SENTENCE ==
    <<"Contactez", " ", "Jean", " ", "Dupont", " ", "à", " ",
      "jean", ".", "dupont", "@", "acme", ".fr", " ", "ou", " ", "au", " ",
      "0", "1", " ", "23", " ", "45", " ", "67", " ", "89">>

EXAMPLE_PERSON == <<"Jean", " ", "Dupont">>
EXAMPLE_EMAIL == <<"jean", ".", "dupont", "@", "acme", ".fr">>
EXAMPLE_PHONE == <<"0", "1", " ", "23", " ", "45", " ", "67", " ", "89">>

\* on the sentence the model tags the person, and the address and the number or not
ExampleModels ==
    {GLiNER({[text |-> EXAMPLE_PERSON, label |-> "person"]}),
     GLiNER({[text |-> EXAMPLE_PERSON, label |-> "person"],
             [text |-> EXAMPLE_EMAIL, label |-> "email address"],
             [text |-> EXAMPLE_PHONE, label |-> "phone number"]})}

InitRoundTrip ==
    /\ Init!1 /\ Init!2 /\ Init!3 /\ Init!4 /\ Init!5 /\ Init!6 /\ Init!7 /\ Init!8
    /\ Init!9 /\ Init!10 /\ Init!11 /\ Init!12 /\ Init!14
    /\ Init!15 /\ Init!16 /\ Init!17 /\ Init!18
    /\ inp \in [stage : {"text"}, text : TextsUpTo(MaxTextAtoms), model : RoundTripModels]
               \cup [stage : {"text"}, text : {EXAMPLE_SENTENCE}, model : ExampleModels]

\* anonymize_text(text, project_id, db) with no mapping in the project, and its flush
AnonymizeText ==
    /\ inp.stage = "text"
    /\ out.stage = "none"
    /\ \E existing_mappings \in get_mappings(<<>>, "p1") :
          LET res == anonymize_text(inp.text, existing_mappings,
                                    detect_entities(inp.model, FALSE, inp.text), "p1", "q1")
          IN  out' = [stage |-> "anonymized", text |-> res.result, rows |-> res.added]
    /\ UNCHANGED <<mappings, chunks, documents, collection, progress, progress_log, session,
                   pc, local, issued, faults, _model, inp,
                   _client, _embedding_fn, loop, inference>>

\* deanonymize_text(anonymized, project_id, db) against the rows the call above added
DeanonymizeText ==
    /\ out.stage = "anonymized"
    /\ out' = [stage |-> "restored", anonymized |-> out.text, rows |-> out.rows,
               text |-> deanonymize_text(out.text, out.rows, "p1")]
    /\ UNCHANGED <<mappings, chunks, documents, collection, progress, progress_log, session,
                   pc, local, issued, faults, _model, inp,
                   _client, _embedding_fn, loop, inference>>

NextRoundTrip == AnonymizeText \/ DeanonymizeText

SpecRoundTrip == InitRoundTrip /\ [][NextRoundTrip]_vars

\* C2: in a project without mappings, deanonymize_text(anonymize_text(T)) is T, whatever
\* spans the detector returned on T.
C2_RoundTrip == out.stage = "restored" => out.text = inp.text

-----------------------------------------------------------------------------
(* a sequence of texts anonymized by consecutive anonymize_chunks_batch calls *)

\* what the sentence becomes when the three entities get the prefix of their kind
EXAMPLE_ANONYMIZED ==
    <<"Contactez", " ">> \o Placeholder("PERSONNE", 1) \o <<" ", "à", " ">>
        \o Placeholder("EMAIL", 1) \o <<" ", "ou", " ", "au", " ">>
        \o Placeholder("TELEPHONE", 1)

\* C15: a value the e-mail rule matches gets entity type email and a placeholder
\* [EMAIL_n], a value the phone rule matches gets phone and [TELEPHONE_n], whether the
\* model or the rule detected it; the example sentence becomes
\* "Contactez [PERSONNE_1] à [EMAIL_1] ou au [TELEPHONE_1]" with a person row, an
\* email row and a phone row.
C15_PrefixFollowsKind ==
    out.stage = "anonymized"
        => /\ \A k \in 1..Len(out.rows) :
                  LET row == out.rows[k]
                      v == row.original_value
                  IN  /\ EmailMatchEnd(v, 0) = Len(v)
                             => /\ row.entity_type = "email"
                                /\ row.anonymized_value[2] = "EMAIL"
                      /\ PhoneMatchEnd(v, 0) = Len(v)
                             => /\ row.entity_type = "phone"
                                /\ row.anonymized_value[2] = "TELEPHONE"
           /\ inp.text = EXAMPLE_SENTENCE
                  => /\ out.text = EXAMPLE_ANONYMIZED
                     /\ [k \in 1..Len(out.rows) |-> out.rows[k].entity_type]
                            = <<"person", "email", "phone">>

MaxBatch == 3

BatchTexts == {<<"Jean">>, <<"Marie">>, <<"Marie", " ", "Jean">>, <<"acme">>}

RECURSIVE SeqsUpTo(_, _)
SeqsUpTo(S, n) ==
    IF n = 0 THEN {<<>>}
    ELSE LET shorter == SeqsUpTo(S, n - 1)
         IN  shorter \cup {Append(t, a) : t \in {u \in shorter : Len(u) = n - 1}, a \in S}

RECURSIVE Sum(_)
Sum(s) == IF s = <<>> THEN 0 ELSE Head(s) + Sum(Tail(s))

\* the ways to cut n texts into consecutive batches: the sizes of the batches
Cuts(n) == {c \in SeqsUpTo(1..n, n) : Sum(c) = n}

\* what an earlier, committed call anonymized: it makes the mapping state the calls start from
PriorTexts == {<<>>, <<<<"Jean">>>>, <<<<"x", " ", "acme">>>>}

BatchInputs ==
    UNION {[stage : {"batch"}, prior : PriorTexts, texts : {t}, cuts : Cuts(Len(t))] :
              t \in SeqsUpTo(BatchTexts, MaxBatch) \ {<<>>}}

InitBatch ==
    /\ Init!1 /\ Init!2 /\ Init!3 /\ Init!4 /\ Init!5 /\ Init!6 /\ Init!7 /\ Init!8
    /\ Init!9 /\ Init!10 /\ Init!11 /\ Init!12 /\ Init!14
    /\ Init!15 /\ Init!16 /\ Init!17 /\ Init!18
    /\ inp \in BatchInputs

\* the earlier call: the rows it leaves are the mapping state every grouping starts from
BatchPrior ==
    /\ inp.stage = "batch"
    /\ out.stage = "none"
    /\ \E existing_mappings \in get_mappings(<<>>, "p1") :
          LET res == anonymize_chunks_batch(inp.prior, existing_mappings,
                         _batch_detect_entities(MODEL, FALSE, inp.prior), "p1", "r1")
          IN  out' = [stage |-> "calls", start |-> res.added, rows |-> res.added,
                      subs |-> <<>>, texts |-> inp.texts, cuts |-> inp.cuts]
    /\ UNCHANGED <<mappings, chunks, documents, collection, progress, progress_log, session,
                   pc, local, issued, faults, _model, inp,
                   _client, _embedding_fn, loop, inference>>

\* the next anonymize_chunks_batch call of the grouping, on the next batch of texts
BatchCall ==
    /\ out.stage = "calls"
    /\ LET n == Head(out.cuts)
           texts == SubSeq(out.texts, 1, n)
       IN  \E existing_mappings \in get_mappings(out.rows, "p1") :
              LET res == anonymize_chunks_batch(texts, existing_mappings,
                             _batch_detect_entities(MODEL, FALSE, texts), "p1", "r1")
              IN  out' = [out EXCEPT !.rows = @ \o res.added,
                                     !.subs = @ \o res.subs,
                                     !.texts = SubSeq(@, n + 1, Len(@)),
                                     !.cuts = Tail(@),
                                     !.stage = IF Tail(out.cuts) = <<>> THEN "grouped"
                                               ELSE "calls"]
    /\ UNCHANGED <<mappings, chunks, documents, collection, progress, progress_log, session,
                   pc, local, issued, faults, _model, inp,
                   _client, _embedding_fn, loop, inference>>

NextBatch == BatchPrior \/ BatchCall

SpecBatch == InitBatch /\ [][NextBatch]_vars

\* the final placeholder of each original value a sequence of substitutions replaced
FinalPlaceholders(subs) ==
    [v \in {subs[k].value : k \in 1..Len(subs)} |->
        subs[CHOOSE k \in 1..Len(subs) :
                 /\ subs[k].value = v
                 /\ \A j \in 1..Len(subs) : subs[j].value = v => j <= k].placeholder]

\* the substitutions of the one call that takes all the texts, from the rows start
OneBatch(texts, start) ==
    anonymize_chunks_batch(texts, CHOOSE em \in get_mappings(start, "p1") : TRUE,
                           _batch_detect_entities(MODEL, FALSE, texts), "p1", "r1").subs

-----------------------------------------------------------------------------
(* create_chunks applied on its own to a text of numbered words, given as   *)
(* the whole text or as the one page of a document                          *)

MaxWords == 800

LineWords == 7

\* the words "1", "2", ..., "n" in lines of LineWords words: a space between two words of a line, a
\* space and a newline between two lines
NumberedText(n) ==
    Join(<<>>, [k \in 1..n |-> IF k = 1 THEN <<ToStr(k)>>
                               ELSE IF k % LineWords = 1 THEN <<" ", "\n", ToStr(k)>>
                               ELSE <<" ", ToStr(k)>>])

ChunkInputs ==
    {[stage |-> "text", text |-> NumberedText(n), paged |-> paged] :
        n \in 0..MaxWords, paged \in BOOLEAN}

InitChunks ==
    /\ Init!1 /\ Init!2 /\ Init!3 /\ Init!4 /\ Init!5 /\ Init!6 /\ Init!7 /\ Init!8
    /\ Init!9 /\ Init!10 /\ Init!11 /\ Init!12 /\ Init!14
    /\ Init!15 /\ Init!16 /\ Init!17 /\ Init!18
    /\ inp \in ChunkInputs

CreateChunks ==
    /\ inp.stage = "text"
    /\ out.stage = "none"
    /\ out' = [stage |-> "chunked",
               chunks |-> create_chunks(inp.text, "d1", DocCategory("d1"),
                              IF inp.paged THEN <<Page(1, inp.text)>> ELSE <<>>)]
    /\ UNCHANGED <<mappings, chunks, documents, collection, progress, progress_log, session,
                   pc, local, issued, faults, _model, inp,
                   _client, _embedding_fn, loop, inference>>

NextChunks == CreateChunks

SpecChunks == InitChunks /\ [][NextChunks]_vars

\* the words of the k-th chunk returned
ChunkWords(k) == Split(out.chunks[k].content)

\* the words two sequences of distinct words have in common
Shared(a, b) == Range(a) \cap Range(b)

\* C12: when the text or page has more than CHUNK_SIZE words, every chunk but the
\* last has exactly CHUNK_SIZE words and the last CHUNK_OVERLAP words of a chunk are
\* the first CHUNK_OVERLAP words of the next, which are all the two have in common.
C12_ChunksOverlap ==
    (out.stage = "chunked" /\ Len(Split(inp.text)) > CHUNK_SIZE)
        => \A k \in 1..(Len(out.chunks) - 1) :
               LET a == ChunkWords(k)
                   b == ChunkWords(k + 1)
               IN  /\ Len(a) = CHUNK_SIZE
                   /\ PyFrom(a, Len(a) - CHUNK_OVERLAP) = PySlice(b, 0, CHUNK_OVERLAP)
                   /\ Cardinality(Shared(a, b)) = CHUNK_OVERLAP

\* C12, amended: two consecutive chunks share CHUNK_OVERLAP words at their boundary
\* when the later one has that many, and otherwise the whole of the later one; a chunk
\* but the last has CHUNK_SIZE words unless it is the last but one and the last has
\* fewer than CHUNK_OVERLAP words, and then it has the CHUNK_SIZE - CHUNK_OVERLAP words
\* before the last chunk and the words of the last chunk.
C12_ChunksOverlapUpToTail ==
    (out.stage = "chunked" /\ Len(Split(inp.text)) > CHUNK_SIZE)
        => \A k \in 1..(Len(out.chunks) - 1) :
               LET a == ChunkWords(k)
                   b == ChunkWords(k + 1)
                   n == Min(CHUNK_OVERLAP, Len(b))
               IN  /\ Len(a) = IF k + 1 = Len(out.chunks) /\ Len(b) < CHUNK_OVERLAP
                                THEN CHUNK_SIZE - CHUNK_OVERLAP + Len(b)
                                ELSE CHUNK_SIZE
                   /\ PyFrom(a, Len(a) - n) = PySlice(b, 0, n)
                   /\ Cardinality(Shared(a, b)) = n

\* a page of more than CHUNK_SIZE words whose last chunk has fewer than CHUNK_OVERLAP
\* words
C12_Witness ==
    /\ out.stage = "chunked"
    /\ inp.paged
    /\ Len(out.chunks) = 3
    /\ Len(ChunkWords(3)) < CHUNK_OVERLAP
    /\ Len(ChunkWords(2)) < CHUNK_SIZE

\* the window that starts at word k * (CHUNK_SIZE - CHUNK_OVERLAP) of the words
Window(words, k) ==
    PySlice(words, k * (CHUNK_SIZE - CHUNK_OVERLAP),
            k * (CHUNK_SIZE - CHUNK_OVERLAP) + CHUNK_SIZE)

\* C13: the chunks are, in order, the windows of at most CHUNK_SIZE words that start
\* every CHUNK_SIZE - CHUNK_OVERLAP words and hold at least 20 words, numbered from 0;
\* a window of 19 words or fewer gives no chunk, and 800 words give chunks of 350, 350
\* and 200 words.
C13_WindowsOfTwentyWordsOrMore ==
    out.stage = "chunked"
        => LET words == Split(inp.text)
               kept == {k \in 0..Len(words) :
                           /\ k * (CHUNK_SIZE - CHUNK_OVERLAP) < Len(words)
                           /\ Len(Window(words, k)) >= 20}
           IN  /\ Len(out.chunks) = Cardinality(kept)
               /\ \A k \in kept :
                      /\ k + 1 <= Len(out.chunks)
                      /\ ChunkWords(k + 1) = Window(words, k)
                      /\ out.chunks[k + 1].chunk_index = k
               /\ Len(words) = 800
                      => [k \in 1..Len(out.chunks) |-> Len(ChunkWords(k))] = <<350, 350, 200>>

\* a text whose second window has exactly 20 words, kept as the second chunk
C13_Witness ==
    /\ out.stage = "chunked"
    /\ Len(out.chunks) = 2
    /\ Len(ChunkWords(2)) = 20
    /\ Len(Split(inp.text)) = CHUNK_SIZE - CHUNK_OVERLAP + 20

\* C30: when the text or page has at least 20 words, each of its words is in a
\* chunk create_chunks returned: a trailing window of fewer than 20 words that gives
\* no chunk holds only words of the chunk before it.
C30_EveryWordInSomeChunk ==
    (out.stage = "chunked" /\ Len(Split(inp.text)) >= MIN_CHUNK_WORDS)
        => Range(Split(inp.text))
               \subseteq UNION {Range(ChunkWords(k)) : k \in 1..Len(out.chunks)}

\* a page whose second window has ten words and gave no chunk
C30_Witness ==
    /\ out.stage = "chunked"
    /\ inp.paged
    /\ Len(Split(inp.text)) = CHUNK_SIZE - CHUNK_OVERLAP + 10
    /\ Len(out.chunks) = 1

-----------------------------------------------------------------------------
(* detect_entities and _batch_detect_entities applied on their own to a     *)
(* text of more than GLINER_SEGMENT_WORDS words that names one entity       *)

MaxDetectWords == 290

\* what the text can name: one word, two words, an address the regex rules match too
NamedEntities == {<<"Jean">>, <<"Jean", " ", "Dupont">>, <<"jean", "@", "acme", ".fr">>}

\* the tags of the model: it knows the first name alone as well as the full name
SEGMENT_MODEL == GLiNER({[text |-> <<"Jean">>, label |-> "person"],
                         [text |-> <<"Jean", " ", "Dupont">>, label |-> "person"],
                         [text |-> <<"jean", "@", "acme", ".fr">>, label |-> "email address"]})

\* n words with the entity where the word at position pos would be
TextNaming(entity, pos, n) ==
    Join(<<" ">>, [k \in 1..n |-> IF k = pos THEN entity ELSE <<"mot">>])

DetectInputs ==
    {[stage |-> "text", text |-> TextNaming(entity, pos, n)] :
        entity \in NamedEntities, pos \in 1..MaxDetectWords,
        n \in {GLINER_SEGMENT_WORDS + 1, MaxDetectWords}}

InitDetect ==
    /\ Init!1 /\ Init!2 /\ Init!3 /\ Init!4 /\ Init!5 /\ Init!6 /\ Init!7 /\ Init!8
    /\ Init!9 /\ Init!10 /\ Init!11 /\ Init!12 /\ Init!14
    /\ Init!15 /\ Init!16 /\ Init!17 /\ Init!18
    /\ inp \in DetectInputs

DetectEntities ==
    /\ inp.stage = "text"
    /\ out.stage = "none"
    /\ out' = [stage |-> "detected", batched |-> FALSE,
               entities |-> detect_entities(SEGMENT_MODEL, FALSE, inp.text)]
    /\ UNCHANGED <<mappings, chunks, documents, collection, progress, progress_log, session,
                   pc, local, issued, faults, _model, inp,
                   _client, _embedding_fn, loop, inference>>

BatchDetectEntities ==
    /\ inp.stage = "text"
    /\ out.stage = "none"
    /\ out' = [stage |-> "detected", batched |-> TRUE,
               entities |-> _batch_detect_entities(SEGMENT_MODEL, FALSE,
                                                   <<TJean, inp.text>>)[2]]
    /\ UNCHANGED <<mappings, chunks, documents, collection, progress, progress_log, session,
                   pc, local, issued, faults, _model, inp,
                   _client, _embedding_fn, loop, inference>>

NextDetect == DetectEntities \/ BatchDetectEntities

SpecDetect == InitDetect /\ [][NextDetect]_vars

\* the inference windows of the text and what the model detects in the k-th, as
\* occurrences of the full text
Windows(text) == Segments(WordSpans(text), 0)

Detected(text, k) ==
    LET seg == Windows(text)[k]
        preds == predict_entities(SEGMENT_MODEL, PySlice(text, seg[1], seg[2]))
    IN  {[text |-> preds[j].text, start |-> seg[1] + preds[j].start,
          end |-> seg[1] + preds[j].end] : j \in 1..Len(preds)}

\* the occurrences detected in two consecutive windows alike
DetectedTwice(text) ==
    UNION {Detected(text, k) \cap Detected(text, k + 1) : k \in 1..(Len(Windows(text)) - 1)}

\* C14: in a text of more than 150 words, an occurrence the model detects in two
\* consecutive windows is returned once, by detect_entities and by
\* _batch_detect_entities, and starts and ends where it stands in the full text.
C14_DetectedTwiceReturnedOnce ==
    (out.stage = "detected" /\ Len(WordSpans(inp.text)) > GLINER_SEGMENT_WORDS)
        => \A o \in DetectedTwice(inp.text) :
               LET found == {j \in 1..Len(out.entities) :
                                \/ out.entities[j].text = o.text /\ out.entities[j].start = o.start
                                \/ out.entities[j].start = o.start /\ out.entities[j].end = o.end}
               IN  /\ Cardinality(found) = 1
                   /\ \A j \in found :
                          /\ out.entities[j].text = o.text
                          /\ out.entities[j].start = o.start
                          /\ out.entities[j].end = o.end
                          /\ PySlice(inp.text, o.start, o.end) = o.text

\* an address in the words two windows share, detected in both and matched by the
\* regex rules as well
C14_Witness ==
    /\ out.stage = "detected"
    /\ out.batched
    /\ \E o \in DetectedTwice(inp.text) : o.text = <<"jean", "@", "acme", ".fr">>
    /\ Len(out.entities) = 1

-----------------------------------------------------------------------------
(* Properties of the ingestion run, under Spec *)

AllChunkRows == {chunks[k] : k \in 1..Len(chunks)}
                \cup UNION {Range(session[r].chunks) : r \in Runs}
AllMappingRows == Range(mappings) \cup UNION {Range(session[p].mappings) : p \in Procs}
Vectors(p) == Range(collection[p])

\* C4: for every chunk a run has indexed, the text stored in the project's vector
\* collection is the "passage: " framing of the chunk's anonymized content, the one
\* anonymize_chunks_batch returned and the chunk row carries.
C4_VectorsHoldAnonymizedContent ==
    \A p \in Projects : \A v \in Vectors(p) : \A c \in AllChunkRows :
        v.id = <<c.document_id, c.chunk_index>>
            => v.document = <<"passage: ">> \o c.anonymized_content

RaisedWhileProcessing(r) ==
    /\ pc[r] = "done"
    /\ local[r].raised
    /\ documents[DocOf(r)].processing_status # "pending"

\* the progress entry ProgressTracker.fail leaves for str(e) = error
FailedEntry(error) ==
    [step |-> "failed",
     step_label |-> <<"Echec: ">> \o SubSeq(error, 1, Min(Len(error), ERROR_LABEL_CHARS)),
     progress |-> -1]

\* C9: when a pipeline step raised after PROCESSING was persisted, the run
\* returns with the progress entry at step "failed", progress -1, a label of at most the
\* first 120 characters of the error, and the persisted status FAILED.
C9_RaisedRunEndsFailed ==
    \A r \in Runs :
        RaisedWhileProcessing(r)
            => /\ progress[DocOf(r)] = FailedEntry(local[r].error)
               /\ documents[DocOf(r)].processing_status = "failed"

\* C9, amended: the same for the progress entry (an error is a sequence of
\* characters, the label its prefix "Echec: " and then at most 120 of them); the
\* persisted status is FAILED
\* unless the handler's own status update raised, which is swallowed too and leaves the
\* status at PROCESSING.
C9_RaisedRunEndsFailedUnlessSwallowed ==
    \A r \in Runs :
        RaisedWhileProcessing(r)
            => /\ progress[DocOf(r)] = FailedEntry(local[r].error)
               /\ Len(Tail(progress[DocOf(r)].step_label)) <= ERROR_LABEL_CHARS
               /\ documents[DocOf(r)].processing_status =
                      IF local[r].swallowed THEN "processing" ELSE "failed"

\* a run returned after an error longer than the label allows, and its handler's status
\* update was swallowed
C9_Witness ==
    /\ RaisedWhileProcessing("r1")
    /\ Len(local["r1"].error) > ERROR_LABEL_CHARS
    /\ local["r1"].swallowed
    /\ documents["d1"].processing_status = "processing"

\* C10: a run whose extracted text is empty or whitespace creates no chunk row, no
\* mapping row and no vector for its document; when it returns without an exception
\* the persisted status is FAILED and the progress entry carries the fixed message.
C10_NoTextFailsAndCreatesNothing ==
    \A r \in Runs :
        local[r].empty
            => /\ \A c \in AllChunkRows : c.document_id # DocOf(r)
               /\ \A m \in AllMappingRows : m.by # r
               /\ \A p \in Projects : \A v \in Vectors(p) : v.document_id # DocOf(r)
               /\ (pc[r] = "done" /\ ~local[r].raised)
                      => /\ documents[DocOf(r)].processing_status = "failed"
                         /\ progress[DocOf(r)] =
                                [step |-> "failed",
                                 step_label |-> <<"Echec: ", "Aucun texte extrait du document">>,
                                 progress |-> -1]

\* a run extracted whitespace only and returned through the no-text branch
C10_Witness ==
    /\ pc["r1"] = "done"
    /\ local["r1"].empty
    /\ ~local["r1"].raised
    /\ documents["d1"].file = TBlank
    /\ documents["d1"].processing_status = "failed"

\* the steps of STEPS before "failed", as a run reports them when nothing is skipped
ALL_STEPS == <<"reading", "extracting_text", "extracting_images", "chunking",
               "anonymizing", "indexing", "completed">>

\* the same without the image extraction
STEPS_WITHOUT_IMAGES == <<"reading", "extracting_text", "chunking", "anonymizing",
                          "indexing", "completed">>

\* C11: a document whose run ended COMPLETED has had the steps reading,
\* extracting_text, extracting_images, chunking, anonymizing, indexing, completed
\* reported to the progress channel, each once and in that order, whatever its type.
C11_CompletedRunReportedAllSteps ==
    \A d \in Docs :
        (documents[d] # NoRow /\ documents[d].processing_status = "completed")
            => progress_log[d] = ALL_STEPS

\* C11, amended: the same for PDF, DOCX and DOC; for XLSX and XLS, which have no image
\* extraction, the steps reported are those without extracting_images.
C11_CompletedRunReportedItsSteps ==
    \A d \in Docs :
        (documents[d] # NoRow /\ documents[d].processing_status = "completed")
            => progress_log[d] = IF documents[d].file_type \in {"xlsx", "xls"}
                                 THEN STEPS_WITHOUT_IMAGES
                                 ELSE ALL_STEPS

\* an Excel document completed
C11_Witness ==
    /\ documents["d1"] # NoRow
    /\ documents["d1"].file_type = "xlsx"
    /\ documents["d1"].processing_status = "completed"
    /\ pc["r1"] = "done"

-----------------------------------------------------------------------------
(* Properties of the mapping store, under SpecConcurrent *)

\* the committed rows of project p
Persisted(rows, p) == {k \in 1..Len(rows) : rows[k].project_id = p}

\* the n of a placeholder [PREFIX_n]
NumberOf(anonymized_value) ==
    CHOOSE n \in 0..(Len(mappings) + Len(mappings') + 1) : ToStr(n) = anonymized_value[4]

\* C1: within a project, the calls that anonymized the same original value all
\* replaced it with the same placeholder.
C1_SameValueSamePlaceholder ==
    \A a, b \in issued :
        (a.project_id = b.project_id /\ a.value = b.value) => a.placeholder = b.placeholder

\* C3: once both ingestion runs of the project have committed, no original value has
\* two placeholders and no placeholder stands for two original values.
C3_CommittedRunsAgree ==
    (pc["r1"] = "done" /\ pc["r2"] = "done")
        => \A p \in Projects : \A i, j \in Persisted(mappings, p) :
               (mappings[i].original_value = mappings[j].original_value)
                   <=> (mappings[i].anonymized_value = mappings[j].anonymized_value)

\* C5: no two rows of a project carry the same placeholder, and the n of a row that
\* becomes persistent is greater than the n of every row already persisted for the
\* same project and entity type.
C5_PlaceholdersUniqueAndIncreasing ==
    [][\A p \in Projects :
          /\ \A i, j \in Persisted(mappings', p) :
                 i # j => mappings'[i].anonymized_value # mappings'[j].anonymized_value
          /\ \A k \in Persisted(mappings', p) : \A j \in Persisted(mappings, p) :
                 (k > Len(mappings) /\ mappings'[k].entity_type = mappings[j].entity_type)
                     => NumberOf(mappings'[k].anonymized_value)
                            > NumberOf(mappings[j].anonymized_value)]_vars

\* C6: no project holds two rows with the same original_value.
C6_OriginalValuesUnique ==
    \A p \in Projects : \A i, j \in Persisted(mappings, p) :
        i # j => mappings[i].original_value # mappings[j].original_value

\* the orders in which a SELECT without ORDER BY can return the rows
Orders(rows) ==
    {[k \in 1..Len(rows) |-> rows[a[k]]] : a \in Arrangements(1..Len(rows), Len(rows))}

\* the text s holds the text p somewhere
Contains(s, p) == \E i \in 0..(Len(s) - Len(p)) : StartsAt(s, p, i)

\* C16: when the gap analysis deanonymizes an answer that quotes the anonymized texts
\* it sent, the result is the same in whatever order the project's rows are read, and
\* no placeholder of an active row of the project is left in it.
C16_DeanonymizeWhateverTheOrder ==
    pc["q1"] = "respond"
        => \A t \in Range(local["q1"].results) :
           \A rows \in Orders(Visible("q1")) :
               /\ deanonymize_text(t, rows, ReqProject("q1"))
                      = deanonymize_text(t, Visible("q1"), ReqProject("q1"))
               /\ \A k \in ActiveRows(rows, ReqProject("q1")) :
                      ~Contains(deanonymize_text(t, rows, ReqProject("q1")),
                                rows[k].anonymized_value)

-----------------------------------------------------------------------------
(* The vector store on its own: three documents, d1 and d2 of project p1   *)
(* and d3 of project p2, indexed, searched and deleted through             *)
(* VectorService, every backend call able to fail.                         *)

StoreDocs == {"d1", "d2", "d3"}
StoreProject(d) == IF d = "d3" THEN "p2" ELSE "p1"
StoreCategory(d) == IF d = "d2" THEN "new_rfp" ELSE "old_rfp"

\* the chunk dicts _process_document_background hands to index_chunks for document d
StoreChunks(d) ==
    <<[id |-> <<"chunk-", d>>, content |-> <<"texte", " ", d>>, document_id |-> d,
       category |-> StoreCategory(d), page_number |-> 1, chunk_index |-> 0]>>

\* scores and distances are counted in units of 0.00001
SCORE_ONE == 100000

\* the cosine distances the backend reports
Distances == {0, 12346, 12351}

\* round(score, 4): to the nearest 0.0001, a tie going to the even digit
Round4(score) ==
    LET q == score \div 10
        r == score % 10
    IN  IF r < 5 THEN 10 * q
        ELSE IF r > 5 THEN 10 * (q + 1)
        ELSE IF q % 2 = 0 THEN 10 * q ELSE 10 * (q + 1)

\* collection.query(query_texts, n_results, where): n_results of the vectors that pass the
\* where filter, each with its distance to the query.  The order of the lists and the
\* distances are the backend's; where = "" stands for None.
collection_query(coll, n_results, where) ==
    LET match == {k \in 1..Len(coll) : where = "" \/ coll[k].category = where}
    IN  UNION {{[j \in 1..Len(a) |-> [id |-> coll[a[j]].id, document |-> coll[a[j]].document,
                                       category |-> coll[a[j]].category,
                                       page_number |-> coll[a[j]].page_number,
                                       distance |-> dist[j]]] :
                    dist \in [1..Len(a) -> Distances]} :
               a \in Arrangements(match, Min(n_results, Cardinality(match)))}

\* a variant that returns the results from the last of the backend's lists to the first
search_resultsBestLast(results) ==
    Reverse([i \in 1..Len(results) |->
                [chunk_id |-> results[i].id, content |-> results[i].document,
                 category |-> results[i].category, page_number |-> results[i].page_number,
                 score |-> Round4(SCORE_ONE - results[i].distance)]])

\* search, lines 120-139: one result per document of the backend's first list, in the
\* order of that list
search_results(results) ==
    [i \in 1..Len(results) |->
        [chunk_id |-> results[i].id, content |-> results[i].document,
         category |-> results[i].category, page_number |-> results[i].page_number,
         score |-> Round4(SCORE_ONE - results[i].distance)]]

\* what a call of the service leaves: raised when an exception left the method,
\* swallowed when an except clause of the method caught one
Outcome(stage, project_id, raised, swallowed) ==
    [stage |-> stage, project_id |-> project_id, raised |-> raised, swallowed |-> swallowed]

\* index_chunks(project_id, chunks) for the chunks of document d, not yet indexed
VectorIndex(d) ==
    LET project_id == StoreProject(d)
    IN  /\ \A k \in 1..Len(collection[project_id]) : collection[project_id][k].document_id # d
        /\ \E g \in GetCollection :
              /\ _client' = g._client
              /\ _embedding_fn' = g._embedding_fn
              /\ \/ /\ g.raises
                    /\ faults' = faults - 1
                    /\ out' = Outcome("index_chunks", project_id, TRUE, FALSE)
                    /\ UNCHANGED collection
                 \/ /\ ~g.raises
                    /\ faults > 0
                    /\ faults' = faults - 1
                    /\ out' = Outcome("index_chunks", project_id, TRUE, FALSE)
                    /\ UNCHANGED collection
                 \/ /\ ~g.raises
                    /\ collection' = [collection EXCEPT ![project_id] =
                                         index_chunks(@, StoreChunks(d))]
                    /\ out' = Outcome("index_chunks", project_id, FALSE, FALSE)
                    /\ UNCHANGED faults
        /\ UNCHANGED <<mappings, chunks, documents, progress, progress_log, session, pc,
                       local, issued, _model, inp, loop, inference>>

\* what search leaves: the arguments, the backend's lists and the list returned
SearchOutcome(project_id, top_k, category_filter, raised, swallowed, results, result) ==
    [stage |-> "search", project_id |-> project_id, top_k |-> top_k,
     category_filter |-> category_filter, raised |-> raised, swallowed |-> swallowed,
     matching |-> Cardinality({k \in 1..Len(collection[project_id]) :
                                  category_filter = ""
                                  \/ collection[project_id][k].category = category_filter}),
     results |-> results, result |-> result]

\* search(project_id, query, top_k, category_filter)
VectorSearch(project_id, top_k, category_filter) ==
    /\ \E g \in GetCollection :
          /\ _client' = g._client
          /\ _embedding_fn' = g._embedding_fn
          /\ \/ /\ g.raises
                /\ faults' = faults - 1
                /\ out' = SearchOutcome(project_id, top_k, category_filter, TRUE, FALSE,
                                        <<>>, <<>>)
             \/ /\ ~g.raises
                /\ faults > 0
                /\ faults' = faults - 1
                /\ out' = SearchOutcome(project_id, top_k, category_filter, FALSE, TRUE,
                                        <<>>, <<>>)
             \/ /\ ~g.raises
                /\ \E results \in collection_query(collection[project_id], top_k,
                                                   category_filter) :
                      out' = SearchOutcome(project_id, top_k, category_filter, FALSE, FALSE,
                                           results, search_results(results))
                /\ UNCHANGED faults
    /\ UNCHANGED <<mappings, chunks, documents, collection, progress, progress_log, session,
                   pc, local, issued, _model, inp, loop, inference>>

\* delete_document_chunks(project_id, document_id): collection.get and collection.delete
\* are inside the try, get_collection is before it
DeleteDocumentChunks(project_id, document_id) ==
    LET ids == {k \in 1..Len(collection[project_id]) :
                    collection[project_id][k].document_id = document_id}
        kept(k) == k \notin ids
    IN  /\ \E g \in GetCollection :
              /\ _client' = g._client
              /\ _embedding_fn' = g._embedding_fn
              /\ \/ /\ g.raises
                    /\ faults' = faults - 1
                    /\ out' = Outcome("delete_document_chunks", project_id, TRUE, FALSE)
                    /\ UNCHANGED collection
                 \/ /\ ~g.raises
                    /\ faults > 0
                    /\ faults' = faults - 1
                    /\ out' = Outcome("delete_document_chunks", project_id, FALSE, TRUE)
                    /\ UNCHANGED collection
                 \/ /\ ~g.raises
                    /\ collection' = [collection EXCEPT ![project_id] =
                           [j \in 1..(Len(@) - Cardinality(ids)) |->
                               @[CHOOSE k \in 1..Len(@) :
                                    /\ kept(k)
                                    /\ Cardinality({i \in 1..k : kept(i)}) = j]]]
                    /\ out' = Outcome("delete_document_chunks", project_id, FALSE, FALSE)
                    /\ UNCHANGED faults
        /\ UNCHANGED <<mappings, chunks, documents, progress, progress_log, session, pc,
                       local, issued, _model, inp, loop, inference>>

\* delete_project_data(project_id): client.delete_collection is inside the try,
\* get_client is before it
DeleteProjectData(project_id) ==
    /\ \/ /\ ~_client
          /\ faults > 0
          /\ faults' = faults - 1
          /\ out' = Outcome("delete_project_data", project_id, TRUE, FALSE)
          /\ UNCHANGED <<collection, _client>>
       \/ /\ faults > 0
          /\ faults' = faults - 1
          /\ _client' = TRUE
          /\ out' = Outcome("delete_project_data", project_id, FALSE, TRUE)
          /\ UNCHANGED collection
       \/ /\ _client' = TRUE
          /\ collection' = [collection EXCEPT ![project_id] = <<>>]
          /\ out' = Outcome("delete_project_data", project_id, FALSE, FALSE)
          /\ UNCHANGED faults
    /\ UNCHANGED <<mappings, chunks, documents, progress, progress_log, session, pc,
                   local, issued, _model, inp, _embedding_fn, loop, inference>>

TopKs == {1, 2}
CategoryFilters == {"", "old_rfp", "new_rfp"}

NextVector ==
    \/ \E d \in StoreDocs : VectorIndex(d)
    \/ \E project_id \in Projects, top_k \in TopKs, category_filter \in CategoryFilters :
          VectorSearch(project_id, top_k, category_filter)
    \/ \E d \in StoreDocs : DeleteDocumentChunks(StoreProject(d), d)
    \/ \E project_id \in Projects : DeleteProjectData(project_id)

SpecVector == Init /\ [][NextVector]_vars

\* C17: no error of the vector store or of the embedding model escapes search,
\* delete_document_chunks or delete_project_data, whichever backend call fails: search
\* returns [] and the deletions return normally.
C17_NoVectorErrorEscapes ==
    out.stage \in {"search", "delete_document_chunks", "delete_project_data"}
        => /\ ~out.raised
           /\ (out.stage = "search" /\ out.swallowed) => out.result = <<>>

Scores(result) == [i \in 1..Len(result) |-> result[i].score]

NonIncreasing(seq) == \A i \in 1..(Len(seq) - 1) : seq[i] >= seq[i + 1]

\* the backend's lists go from the nearest vector to the farthest
NearestFirst(results) == \A i \in 1..(Len(results) - 1) :
                             results[i].distance <= results[i + 1].distance

\* C18 as stated: the list search returns is ordered by non-increasing score whatever
\* the backend returns, holds at most top_k results, and is [] when the project's
\* collection has no matching chunk.
C18_SearchOrderedWhateverTheBackend ==
    (out.stage = "search" /\ ~out.raised)
        => /\ NonIncreasing(Scores(out.result))
           /\ Len(out.result) <= out.top_k
           /\ out.matching = 0 => out.result = <<>>

\* C18, amended: search returns one result per document of the backend's lists, in the
\* backend's order, with score = 1 - distance rounded to 4 decimals; so the list is
\* ordered by non-increasing score when the backend's lists are nearest first, holds
\* at most top_k results, and is [] when the project's collection has no matching chunk.
C18_SearchKeepsTheBackendOrder ==
    (out.stage = "search" /\ ~out.raised)
        => /\ Len(out.result) = Len(out.results)
           /\ \A i \in 1..Len(out.result) :
                 /\ out.result[i].chunk_id = out.results[i].id
                 /\ out.result[i].score = Round4(SCORE_ONE - out.results[i].distance)
           /\ NearestFirst(out.results) => NonIncreasing(Scores(out.result))
           /\ Len(out.result) <= out.top_k
           /\ out.matching = 0 => out.result = <<>>

\* a search of two results whose distances differ but whose rounded scores are equal
C18_Witness ==
    /\ out.stage = "search"
    /\ ~out.raised
    /\ Len(out.result) = 2
    /\ out.results[1].distance < out.results[2].distance
    /\ out.result[1].score = out.result[2].score

-----------------------------------------------------------------------------
(* Two projects side by side: texts anonymized and deanonymized in p1 and  *)
(* in p2 by calls that do not overlap, each committed when it returns, and *)
(* the vector store used by both.                                          *)

IsolationTexts == {<<"Jean">>, <<"Marie", " ", "Jean">>}
IsolationAnswers == {Placeholder("PERSONNE", 1) \o <<" ">> \o Placeholder("PERSONNE", 2)}

\* the request that works on the project
Requester(project_id) == IF project_id = "p1" THEN "q1" ELSE "q2"

\* anonymize_text(text, project_id, db) and the commit of its caller
AnonymizeIn(project_id, text) ==
    /\ \E existing_mappings \in get_mappings(mappings, project_id) :
          LET res == anonymize_text(text, existing_mappings,
                                    detect_entities(MODEL, FALSE, text), project_id,
                                    Requester(project_id))
          IN  /\ mappings' = mappings \o res.added
              /\ out' = [stage |-> "anonymize_text", project_id |-> project_id,
                         text |-> text, result |-> res.result]
    /\ UNCHANGED <<chunks, documents, collection, progress, progress_log, session,
                   pc, local, issued, faults, _model, inp,
                   _client, _embedding_fn, loop, inference>>

\* deanonymize_text(anonymized_text, project_id, db)
DeanonymizeIn(project_id, anonymized_text) ==
    /\ out' = [stage |-> "deanonymize_text", project_id |-> project_id,
               text |-> anonymized_text,
               result |-> deanonymize_text(anonymized_text, mappings, project_id)]
    /\ UNCHANGED <<mappings, chunks, documents, collection, progress, progress_log, session,
                   pc, local, issued, faults, _model, inp,
                   _client, _embedding_fn, loop, inference>>

NextIsolation ==
    \/ \E project_id \in Projects, text \in IsolationTexts : AnonymizeIn(project_id, text)
    \/ \E project_id \in Projects, text \in IsolationAnswers : DeanonymizeIn(project_id, text)
    \/ \E d \in StoreDocs : VectorIndex(d)
    \/ \E project_id \in Projects, top_k \in TopKs, category_filter \in CategoryFilters :
          VectorSearch(project_id, top_k, category_filter)
    \/ \E d \in StoreDocs : DeleteDocumentChunks(StoreProject(d), d)
    \/ \E project_id \in Projects : DeleteProjectData(project_id)

\* no backend call fails
InitIsolation ==
    /\ Init!1 /\ Init!2 /\ Init!3 /\ Init!4 /\ Init!5 /\ Init!6 /\ Init!7 /\ Init!8
    /\ Init!9 /\ Init!10 /\ Init!12 /\ Init!13 /\ Init!14
    /\ Init!15 /\ Init!16 /\ Init!17 /\ Init!18
    /\ faults = 0

SpecIsolation == InitIsolation /\ [][NextIsolation]_vars

\* the rows of the project, as if no other project had any
ProjectRows(rows, p) == SelectSeq(rows, LAMBDA m : m.project_id = p)

\* the ids of the chunks indexed under the project
ChunkIdsOf(p) == {StoreChunks(d)[k].id : d \in {e \in StoreDocs : StoreProject(e) = p},
                                          k \in {1}}

\* C19: an operation on project p leaves the mappings and the vectors of every other
\* project as they were; search(p) returns only chunks indexed under p and, with a
\* category filter, only chunks of that category; anonymize_text and deanonymize_text
\* in p return, and add, what they would if no other project had any mapping.
C19_ProjectsIsolated ==
    [][LET p == out'.project_id
       IN  /\ \A q \in Projects \ {p} :
                 /\ ProjectRows(mappings', q) = ProjectRows(mappings, q)
                 /\ collection'[q] = collection[q]
           /\ \A k \in (Len(mappings) + 1)..Len(mappings') : mappings'[k].project_id = p
           /\ out'.stage = "search" =>
                 \A i \in 1..Len(out'.result) :
                    /\ out'.result[i].chunk_id \in ChunkIdsOf(p)
                    /\ out'.category_filter # ""
                           => out'.result[i].category = out'.category_filter
           /\ out'.stage = "anonymize_text" =>
                 \E alone \in get_mappings(ProjectRows(mappings, p), p) :
                    LET res == anonymize_text(out'.text, alone,
                                              detect_entities(MODEL, FALSE, out'.text), p,
                                              Requester(p))
                    IN  /\ out'.result = res.result
                        /\ ProjectRows(mappings', p) = ProjectRows(mappings, p) \o res.added
           /\ out'.stage = "deanonymize_text" =>
                 out'.result = deanonymize_text(out'.text, ProjectRows(mappings, p), p)
      ]_vars

\* a text anonymized in p2 while p1 holds a mapping of the same value, then a search
\* in p1 while p2 holds vectors of the category searched
C19_Witness ==
    /\ \E i, j \in 1..Len(mappings) :
          /\ mappings[i].project_id = "p1"
          /\ mappings[j].project_id = "p2"
          /\ i < j
          /\ mappings[i].original_value = mappings[j].original_value
    /\ collection["p2"] # <<>>
    /\ out.stage = "search"
    /\ out.project_id = "p1"
    /\ out.category_filter = "old_rfp"
    /\ out.result # <<>>

-----------------------------------------------------------------------------
(* The event loop: the background runs and the requests are coroutines of  *)
(* one loop; a coroutine keeps the loop from the moment it is resumed to   *)
(* its next await.  predict_entities, collection.add and collection.query  *)
(* are plain calls, not awaited.                                           *)

\* what a coroutine does, as its awaits and its calls into the two models:
\* r1, r2 are process_document_background (anonymize_chunks_batch: the SELECT, the
\* batches of predict_entities, the flush; then index_chunks and the commit),
\* q1 is analyze_gap (two searches, then two anonymize_text),
\* q2 is generate_chapter_content with a custom prompt (anonymize_text, then the commit)
Script(p) ==
    IF p \in Runs THEN <<"await", "ner", "ner", "await", "embedding", "await">>
    ELSE IF p = "q1" THEN <<"embedding", "embedding", "await", "ner", "await",
                            "await", "ner", "await">>
    ELSE <<"await", "ner", "await", "await">>

InitLoop ==
    /\ Init!1 /\ Init!2 /\ Init!3 /\ Init!4 /\ Init!5 /\ Init!6 /\ Init!7
    /\ Init!9 /\ Init!10 /\ Init!11 /\ Init!12 /\ Init!13 /\ Init!14
    /\ Init!15 /\ Init!16 /\ Init!17 /\ Init!18
    /\ pc = [p \in Procs |-> 1]

\* the loop resumes a coroutine that is ready
Schedule(p) ==
    /\ loop = "free"
    /\ pc[p] <= Len(Script(p))
    /\ loop' = p
    /\ UNCHANGED <<mappings, chunks, documents, collection, progress, progress_log, session,
                   pc, local, issued, faults, _model, inp, out,
                   _client, _embedding_fn, inference>>

\* a variant that awaits the call, as loop.run_in_executor would: the loop is free
\* while the model computes
ModelCallAwaited(p, m) ==
    /\ loop = p
    /\ pc[p] <= Len(Script(p))
    /\ Script(p)[pc[p]] = m
    /\ p \notin inference[m]
    /\ inference' = [inference EXCEPT ![m] = @ \cup {p}]
    /\ loop' = "free"
    /\ _model' = IF m = "ner" THEN MODEL ELSE _model
    /\ _embedding_fn' = (m = "embedding" \/ _embedding_fn)
    /\ _client' = (m = "embedding" \/ _client)
    /\ UNCHANGED <<mappings, chunks, documents, collection, progress, progress_log, session,
                   pc, local, issued, faults, inp, out>>

\* the coroutine calls model.predict_entities (m = "ner") or collection.add /
\* collection.query (m = "embedding"), the singleton loaded by the first call
ModelCall(p, m) ==
    /\ loop = p
    /\ pc[p] <= Len(Script(p))
    /\ Script(p)[pc[p]] = m
    /\ p \notin inference[m]
    /\ inference' = [inference EXCEPT ![m] = @ \cup {p}]
    /\ _model' = IF m = "ner" THEN MODEL ELSE _model
    /\ _embedding_fn' = (m = "embedding" \/ _embedding_fn)
    /\ _client' = (m = "embedding" \/ _client)
    /\ UNCHANGED <<mappings, chunks, documents, collection, progress, progress_log, session,
                   pc, local, issued, faults, inp, out, loop>>

\* the call returns to the coroutine
ModelReturn(p, m) ==
    /\ loop = p
    /\ p \in inference[m]
    /\ inference' = [inference EXCEPT ![m] = @ \ {p}]
    /\ pc' = [pc EXCEPT ![p] = @ + 1]
    /\ UNCHANGED <<mappings, chunks, documents, collection, progress, progress_log, session,
                   local, issued, faults, _model, inp, out,
                   _client, _embedding_fn, loop>>

\* await db.execute / db.flush / db.commit / the LLM call: the coroutine gives the loop
Await(p) ==
    /\ loop = p
    /\ pc[p] <= Len(Script(p))
    /\ Script(p)[pc[p]] = "await"
    /\ pc' = [pc EXCEPT ![p] = @ + 1]
    /\ loop' = "free"
    /\ UNCHANGED <<mappings, chunks, documents, collection, progress, progress_log, session,
                   local, issued, faults, _model, inp, out,
                   _client, _embedding_fn, inference>>

Models == {"ner", "embedding"}

NextLoop ==
    \E p \in Procs :
       \/ Schedule(p)
       \/ \E m \in Models : ModelCall(p, m)
       \/ \E m \in Models : ModelReturn(p, m)
       \/ Await(p)

SpecLoop == InitLoop /\ [][NextLoop]_vars

\* C20: with the two ingestion runs, the gap analysis (searches and anonymizations) and
\* the chapter request active at the same time, at most one inference call is in
\* progress on the NER model at any moment, and at most one on the embedding model.
C20_OneInferenceAtATime ==
    \A m \in Models : Cardinality(inference[m]) <= 1

\* r1 is inside predict_entities while r2 and the chapter request have reached theirs
\* and the gap analysis, past its searches, has reached its own
C20_Witness ==
    /\ inference["ner"] = {"r1"}
    /\ Script("r2")[pc["r2"]] = "ner"
    /\ Script("q2")[pc["q2"]] = "ner"
    /\ Script("q1")[pc["q1"]] = "ner"

-----------------------------------------------------------------------------
(* Detection with and without the model: texts of up to MaxPhrases phrases *)
(* (an e-mail address, a phone number, a name, a plain word) separated by  *)
(* spaces, a model that is missing or tags a name, the whole address or    *)
(* its local part, and a prediction call that returns or raises.           *)

MaxPhrases == 3

RULE_EMAIL == <<"jean", "@", "acme", ".fr">>
RULE_PHONE == <<"0", "6", "12", "23", "45", "67">>
Phrases == {RULE_EMAIL, RULE_PHONE, <<"Jean">>, <<"mot">>}

RECURSIVE PhraseTexts(_)
PhraseTexts(n) ==
    IF n = 0 THEN {<<>>}
    ELSE LET shorter == PhraseTexts(n - 1)
         IN  shorter \cup Phrases
                 \cup {t \o <<" ">> \o ph : t \in shorter \ {<<>>}, ph \in Phrases}

RuleModels ==
    {NoModel,
     GLiNER({[text |-> <<"Jean">>, label |-> "person"]}),
     GLiNER({[text |-> RULE_EMAIL, label |-> "email address"]}),
     GLiNER({[text |-> <<"jean">>, label |-> "person"]})}

InitRules ==
    /\ Init!1 /\ Init!2 /\ Init!3 /\ Init!4 /\ Init!5 /\ Init!6 /\ Init!7 /\ Init!8
    /\ Init!9 /\ Init!10 /\ Init!11 /\ Init!12 /\ Init!14
    /\ Init!15 /\ Init!16 /\ Init!17 /\ Init!18
    /\ inp \in [stage : {"text"}, text : PhraseTexts(MaxPhrases), model : RuleModels,
                raises : BOOLEAN]

\* detect_entities(text) with the model _get_model() returns
DetectEntitiesWith ==
    /\ inp.stage = "text"
    /\ out.stage = "none"
    /\ out' = [stage |-> "detected", batched |-> FALSE,
               entities |-> detect_entities(inp.model, inp.raises, inp.text)]
    /\ UNCHANGED <<mappings, chunks, documents, collection, progress, progress_log, session,
                   pc, local, issued, faults, _model, inp,
                   _client, _embedding_fn, loop, inference>>

\* _batch_detect_entities([text]) with the model _get_model() returns
BatchDetectEntitiesWith ==
    /\ inp.stage = "text"
    /\ out.stage = "none"
    /\ out' = [stage |-> "detected", batched |-> TRUE,
               entities |-> _batch_detect_entities(inp.model, inp.raises, <<inp.text>>)[1]]
    /\ UNCHANGED <<mappings, chunks, documents, collection, progress, progress_log, session,
                   pc, local, issued, faults, _model, inp,
                   _client, _embedding_fn, loop, inference>>

NextRules == DetectEntitiesWith \/ BatchDetectEntitiesWith

SpecRules == InitRules /\ [][NextRules]_vars

\* the matches of the two rules in the text, as entities
RegexMatches(text) ==
    UNION {LET ms == FindIter(REGEX_PATTERNS[t], text, 0)
           IN  {Entity(PySlice(text, ms[k][1], ms[k][2]), REGEX_PATTERNS[t],
                       ms[k][1], ms[k][2]) : k \in 1..Len(ms)} :
           t \in 1..Len(REGEX_PATTERNS)}

\* C21: when the model is not loaded or the prediction call raises, detect_entities
\* and _batch_detect_entities return exactly the matches of the e-mail and phone rules.
C21_RegexOnlyWithoutModel ==
    (out.stage = "detected" /\ (~inp.model.loaded \/ inp.raises))
        => /\ Range(out.entities) = RegexMatches(inp.text)
           /\ Len(out.entities) = Cardinality(RegexMatches(inp.text))

\* what the model detects in the text, when it is loaded and its call returns
ModelHits(model, raises, text) ==
    IF ~model.loaded \/ raises THEN {} ELSE Range(_predict_on_segments(model, text))

\* C24: every match of the e-mail or phone rule is reported as an entity at its own
\* offsets unless a model detection that overlaps the match has exactly its text;
\* this holds for each occurrence of an address or number the text repeats.
C24_EveryRuleMatchReported ==
    out.stage = "detected"
        => \A m \in RegexMatches(inp.text) :
              \/ \E k \in 1..Len(out.entities) :
                    /\ out.entities[k].text = m.text
                    /\ out.entities[k].start = m.start
                    /\ out.entities[k].end = m.end
              \/ \E h \in ModelHits(inp.model, inp.raises, inp.text) :
                    /\ h.text = m.text
                    /\ h.start < m.end
                    /\ m.start < h.end

-----------------------------------------------------------------------------
(* Properties of a completed run's chunks *)

\* the chunk rows persisted for the document, in the order they were added
ChunkRowsOf(d) == SelectSeq(chunks, LAMBDA row : row.document_id = d)

\* the vectors indexed for the document
VectorsOf(d) == SelectSeq(collection[DocProject(d)], LAMBDA v : v.document_id = d)

\* the chunks create_chunks emits for what a faultless extraction gets out of the file
Emitted(d) ==
    LET x == CHOOSE o \in ExtractOutcomes(documents[d].file_type, documents[d].file) :
                 /\ ~o.raises
                 /\ \A u \in ExtractOutcomes(documents[d].file_type, documents[d].file) :
                       ~u.raises => Len(u.text) <= Len(o.text)
    IN  create_chunks(x.text, d, documents[d].category, x.pages_data)

\* C22: for every document whose run ended COMPLETED, the persisted chunk rows carry
\* chunk_index 0..n-1 in emission order, pages and dropped windows leaving no gap, and
\* n is the document's chunk_count and the number of vectors indexed for it.
C22_ChunkIndexDense ==
    \A d \in Docs :
        (documents[d] # NoRow /\ documents[d].processing_status = "completed")
            => LET rows == ChunkRowsOf(d)
                   n == Len(rows)
               IN  /\ \A k \in 1..n : rows[k].chunk_index = k - 1
                   /\ n = Len(Emitted(d))
                   /\ \A k \in 1..n : /\ rows[k].content = Emitted(d)[k].content
                                      /\ rows[k].page_number = Emitted(d)[k].page_number
                   /\ n = documents[d].chunk_count
                   /\ n = Len(VectorsOf(d))
                   /\ \A k \in 1..n : VectorsOf(d)[k].chunk_index = k - 1

\* a completed PDF of three pages: two chunks of the first page, none of the second,
\* whose only window is dropped, one of the third
C22_Witness ==
    /\ documents["d1"] # NoRow
    /\ documents["d1"].processing_status = "completed"
    /\ [k \in 1..Len(ChunkRowsOf("d1")) |-> ChunkRowsOf("d1")[k].page_number] = <<1, 1, 3>>

-----------------------------------------------------------------------------
(* chapters.py: generate_chapter_content, the branch that generates new    *)
(* content from the project's documents.  Two documents of project p1,     *)
(* each uploaded as an old response or as a new RFP and ingested by its    *)
(* run, then the request; no collaborator fails.                           *)

OLD_RESPONSE_TOP_K == 5
CONTEXT_TOP_K == 3

\* upload_document with the category the user chose
upload_document_as(d, category, file) ==
    /\ documents[d] = NoRow
    /\ pc[RunOf(d)] = "idle"
    /\ documents' = [documents EXCEPT ![d] =
                        [Document(d, "xlsx", file) EXCEPT !.category = category]]
    /\ pc' = [pc EXCEPT ![RunOf(d)] = "start"]
    /\ UNCHANGED <<mappings, chunks, collection, progress, progress_log, session, local,
                   issued, faults, _model, inp, out,
                   _client, _embedding_fn, loop, inference>>

\* lines 261-306: the two searches, anonymize_text on the old response, the AI call
\* with its arguments, the commit.  out keeps what the AI call was given.
generate_new_content(q) ==
    LET project_id == ReqProject(q)
    IN  /\ q = "q1"
        /\ pc[q] = "idle"
        /\ \E use_old_response \in BOOLEAN :
           \E old_results \in (IF use_old_response
                                  THEN search(collection[project_id], OLD_RESPONSE_TOP_K,
                                              "old_response")
                                  ELSE {<<>>}) :
           \E context_results \in search(collection[project_id], CONTEXT_TOP_K, "") :
           \E existing_mappings \in get_mappings(Visible(q), project_id) :
              LET joined == Join(<<"\n", "\n">>, Contents(old_results))
                  res == anonymize_text(joined, existing_mappings,
                                        IF old_results = <<>> THEN <<>>
                                        ELSE detect_entities(MODEL, FALSE, joined),
                                        project_id, q)
                  context_chunks_text == Join(<<"\n", "\n">>, Contents(context_results))
              IN  /\ out' = [stage |-> "generate_chapter_content",
                             use_old_response |-> use_old_response,
                             old_response_content |-> res.result,
                             context_chunks |-> context_chunks_text]
                  /\ mappings' = mappings \o res.added
                  /\ issued' = issued \cup Issue(project_id, res.subs)
                  /\ _model' = IF old_results = <<>> THEN _model ELSE MODEL
        /\ pc' = [pc EXCEPT ![q] = "done"]
        /\ _client' = TRUE
        /\ _embedding_fn' = TRUE
        /\ UNCHANGED <<chunks, documents, collection, progress, progress_log, session,
                       local, faults, inp, loop, inference>>

NextGenerate ==
    \/ \E d \in Docs : \E category \in {"old_response", "new_rfp"} : \E file \in NamedTexts :
          upload_document_as(d, category, file)
    \/ \E r \in Runs : RunBegin(r)
    \/ \E r \in Runs : RunExtract(r)
    \/ \E r \in Runs : RunChunk(r)
    \/ \E r \in Runs : RunAnonymize(r)
    \/ \E r \in Runs : RunIndex(r)
    \/ \E r \in Runs : RunFinish(r)
    \/ generate_new_content("q1")

SpecGenerate == InitConcurrent /\ [][NextGenerate]_vars

\* C26: every piece of document-derived text generate_chapter_content passes to the AI
\* service, the old-response content and the context chunks taken from search results,
\* has been through anonymize_text: the detector finds nothing left to replace in it.
C26_NoRawSearchContentToAI ==
    out.stage = "generate_chapter_content"
        => /\ detect_entities(MODEL, FALSE, out.old_response_content) = <<>>
           /\ detect_entities(MODEL, FALSE, out.context_chunks) = <<>>

-----------------------------------------------------------------------------
(* Properties of the replacement *)

\* the spans anonymize_text retains: those whose trimmed text has 2 characters or more
Retained(entities) == SelectSeq(entities, LAMBDA e : CharLen(Strip(e.text)) >= 2)

\* the placeholder the rows give the value
PlaceholderOf(rows, value) ==
    rows[CHOOSE k \in 1..Len(rows) : rows[k].original_value = value].anonymized_value

\* the text from offset pos on, with each span replaced by its placeholder and what
\* lies between the spans kept
RECURSIVE Spliced(_, _, _, _)
Spliced(text, pos, spans, rows) ==
    IF spans = <<>> THEN PyFrom(text, pos)
    ELSE LET e == Head(spans)
         IN  PySlice(text, pos, Max(pos, e.start))
                 \o PlaceholderOf(rows, Strip(e.text))
                 \o Spliced(text, Max(pos, e.end), Tail(spans), rows)

\* C23: for every list of spans the detector returns for the text, the anonymized text
\* is the text with each retained span replaced by its placeholder and every character
\* outside those spans unchanged and in its order.
C23_SpansReplacedRestUnchanged ==
    out.stage \in {"anonymized", "restored"}
        => (IF out.stage = "anonymized" THEN out.text ELSE out.anonymized)
               = Spliced(inp.text, 0,
                         Retained(detect_entities(inp.model, FALSE, inp.text)), out.rows)


-----------------------------------------------------------------------------
(* What a failed run leaves behind, under Spec *)

\* C25: a run that returned with the persisted status FAILED has left no chunk row
\* of its document, no mapping row it created and no vector of its document in the
\* project's collection.
C25_FailedRunLeavesNothing ==
    \A r \in Runs :
        (/\ pc[r] = "done"
         /\ documents[DocOf(r)] # NoRow
         /\ documents[DocOf(r)].processing_status = "failed")
            => /\ \A k \in 1..Len(chunks) : chunks[k].document_id # DocOf(r)
               /\ \A k \in 1..Len(mappings) : mappings[k].by # r
               /\ \A v \in Vectors(DocProject(DocOf(r))) : v.document_id # DocOf(r)

\* C28: in the progress channel of a document, a "completed" step is never
\* followed by a "failed" one.
C28_CompletedNeverFollowedByFailed ==
    \A d \in Docs : \A i, j \in 1..Len(progress_log[d]) :
        (i < j /\ progress_log[d][i] = "completed") => progress_log[d][j] # "failed"


-----------------------------------------------------------------------------
(* documents.py: delete_document, while the document is being ingested *)

DeleterOf(d) == IF d = "d1" THEN "q1" ELSE "q2"

\* delete_document, lines 311-322: the SELECT and the 404, delete_document_chunks
\* (get_collection outside its try, collection.get and collection.delete inside),
\* os.remove; the coroutine yields at "await db.delete(document)"
delete_document(q, d) ==
    /\ q = DeleterOf(d)
    /\ pc[q] = "idle"
    /\ IF documents[d] = NoRow
       THEN /\ pc' = [pc EXCEPT ![q] = "done"]
            /\ UNCHANGED <<documents, collection, faults, _client, _embedding_fn>>
       ELSE \E g \in GetCollection :
              /\ _client' = g._client
              /\ _embedding_fn' = g._embedding_fn
              /\ \/ /\ g.raises
                    /\ faults' = faults - 1
                    /\ pc' = [pc EXCEPT ![q] = "done"]
                    /\ UNCHANGED <<documents, collection>>
                 \/ /\ ~g.raises
                    /\ \/ /\ collection' = [collection EXCEPT ![documents[d].project_id] =
                                SelectSeq(@, LAMBDA v : v.document_id # d)]
                          /\ UNCHANGED faults
                       \/ /\ faults > 0
                          /\ faults' = faults - 1
                          /\ UNCHANGED collection
                    /\ documents' = [documents EXCEPT ![d].file = NoFile]
                    /\ pc' = [pc EXCEPT ![q] = "delete"]
    /\ UNCHANGED <<mappings, chunks, progress, progress_log, session, local, issued,
                   _model, inp, out, loop, inference>>

\* delete_document, lines 324-325: db.delete(document) and the commit; the chunk rows
\* of the document go with it (ondelete="CASCADE")
delete_document_commit(q, d) ==
    /\ q = DeleterOf(d)
    /\ pc[q] = "delete"
    /\ documents' = [documents EXCEPT ![d] = NoRow]
    /\ chunks' = SelectSeq(chunks, LAMBDA c : c.document_id # d)
    /\ pc' = [pc EXCEPT ![q] = "done"]
    /\ UNCHANGED <<mappings, collection, progress, progress_log, session, local, issued,
                   faults, _model, inp, out, _client, _embedding_fn, loop, inference>>

NextDelete ==
    \/ \E d \in Docs : \E file \in NamedTexts : upload_document(d, "xlsx", file)
    \/ \E r \in Runs : RunBegin(r)
    \/ \E r \in Runs : RunExtract(r)
    \/ \E r \in Runs : RunChunk(r)
    \/ \E r \in Runs : RunAnonymize(r)
    \/ \E r \in Runs : RunIndex(r)
    \/ \E r \in Runs : RunFinish(r)
    \/ \E r \in Runs : RunExcept(r)
    \/ \E d \in Docs : delete_document(DeleterOf(d), d)
    \/ \E d \in Docs : delete_document_commit(DeleterOf(d), d)

\* Two documents uploaded, ingested and deleted, in every order the event loop and
\* the database allow; no collaborator fails.
SpecDelete == InitConcurrent /\ [][NextDelete]_vars

\* C27: once delete_document and the ingestion run of a document have both
\* finished and the document's row is gone, the project's collection holds no vector
\* of the document and the database no chunk row of it.
C27_DeletedDocumentLeavesNothing ==
    \A d \in Docs :
        (/\ pc[DeleterOf(d)] = "done"
         /\ pc[RunOf(d)] = "done"
         /\ documents[d] = NoRow)
            => /\ \A v \in Vectors(DocProject(d)) : v.document_id # d
               /\ \A k \in 1..Len(chunks) : chunks[k].document_id # d


-----------------------------------------------------------------------------
(* anonymize_text(T) and anonymize_chunks_batch([T]) from one mapping state *)

OneTexts ==
    {<<>>, TBlank, RULE_EMAIL, RULE_EMAIL \o <<" ">> \o RULE_EMAIL,
     <<"jean", "@", "jean", ".fr">>, <<"Marie", " ", "Jean", " ", "Marie">>}
        \cup BatchTexts
        \cup {TextNaming(entity, pos, n) :
                 entity \in NamedEntities,
                 pos \in {1, GLINER_SEGMENT_WORDS - 10, GLINER_SEGMENT_WORDS + 1},
                 n \in {GLINER_SEGMENT_WORDS + 1, MaxDetectWords}}

OneModels == {NoModel, MODEL, SEGMENT_MODEL,
              GLiNER({[text |-> <<"jean">>, label |-> "person"]})}

InitOne ==
    /\ Init!1 /\ Init!2 /\ Init!3 /\ Init!4 /\ Init!5 /\ Init!6 /\ Init!7 /\ Init!8
    /\ Init!9 /\ Init!10 /\ Init!11 /\ Init!12 /\ Init!14
    /\ Init!15 /\ Init!16 /\ Init!17 /\ Init!18
    /\ inp \in [stage : {"one"}, prior : PriorTexts, text : OneTexts,
                model : OneModels, raises : BOOLEAN]

\* "await anonymize_text(text, project_id, db)": the early return for an empty text,
\* get_mappings, detect_entities, the entity loop and the replacements
AnonymizeTextCall(text, rows, model, raises) ==
    IF text = <<>> THEN {[results |-> <<text>>, added |-> <<>>]}
    ELSE {LET res == anonymize_text(text, existing_mappings,
                                    detect_entities(model, raises, text), "p1", "r1")
          IN  [results |-> <<res.result>>, added |-> res.added] :
             existing_mappings \in get_mappings(rows, "p1")}

\* "await anonymize_chunks_batch(texts, project_id, db)": the early return for no
\* text, get_mappings, _batch_detect_entities, the loops
AnonymizeChunksBatchCall(texts, rows, model, raises) ==
    IF texts = <<>> THEN {[results |-> <<>>, added |-> <<>>]}
    ELSE {LET res == anonymize_chunks_batch(texts, existing_mappings,
                         _batch_detect_entities(model, raises, texts), "p1", "r1")
          IN  [results |-> res.results, added |-> res.added] :
             existing_mappings \in get_mappings(rows, "p1")}

\* the earlier call that leaves the mapping state
OnePrior ==
    /\ inp.stage = "one"
    /\ out.stage = "none"
    /\ \E res \in AnonymizeChunksBatchCall(inp.prior, <<>>, MODEL, FALSE) :
          out' = [stage |-> "ready", rows |-> res.added]
    /\ UNCHANGED <<mappings, chunks, documents, collection, progress, progress_log, session,
                   pc, local, issued, faults, _model, inp,
                   _client, _embedding_fn, loop, inference>>

OneAnonymizeText ==
    /\ out.stage = "ready"
    /\ \E res \in AnonymizeTextCall(inp.text, out.rows, inp.model, inp.raises) :
          out' = [stage |-> "anonymize_text", rows |-> out.rows,
                  results |-> res.results, added |-> res.added]
    /\ UNCHANGED <<mappings, chunks, documents, collection, progress, progress_log, session,
                   pc, local, issued, faults, _model, inp,
                   _client, _embedding_fn, loop, inference>>

OneAnonymizeChunksBatch ==
    /\ out.stage = "ready"
    /\ \E res \in AnonymizeChunksBatchCall(<<inp.text>>, out.rows, inp.model, inp.raises) :
          out' = [stage |-> "anonymize_chunks_batch", rows |-> out.rows,
                  results |-> res.results, added |-> res.added]
    /\ UNCHANGED <<mappings, chunks, documents, collection, progress, progress_log, session,
                   pc, local, issued, faults, _model, inp,
                   _client, _embedding_fn, loop, inference>>

NextOne == OnePrior \/ OneAnonymizeText \/ OneAnonymizeChunksBatch

SpecOne == InitOne /\ [][NextOne]_vars

\* C29: from one mapping state, what anonymize_chunks_batch([T]) returned and the
\* rows it added are what anonymize_text(T) returns and adds, and the other way
\* round: the same text, the same rows with the same placeholders, in the same order.
C29_BatchOfOneIsAnonymizeText ==
    /\ out.stage = "anonymize_chunks_batch"
           => [results |-> out.results, added |-> out.added]
                  \in AnonymizeTextCall(inp.text, out.rows, inp.model, inp.raises)
    /\ out.stage = "anonymize_text"
           => [results |-> out.results, added |-> out.added]
                  \in AnonymizeChunksBatchCall(<<inp.text>>, out.rows, inp.model, inp.raises)

\* a text of more than GLINER_SEGMENT_WORDS words went through the batch from a
\* state that held a row, and the call added a row numbered after it
C29_Witness ==
    /\ out.stage = "anonymize_chunks_batch"
    /\ Len(WordSpans(inp.text)) > GLINER_SEGMENT_WORDS
    /\ out.rows # <<>>
    /\ out.added # <<>>
    /\ out.added[1].entity_type = out.rows[1].entity_type
    /\ out.added[1].anonymized_value = Placeholder("PERSONNE", 2)

====
